---- MODULE Spec2Model ----
(***************************************************************************)
(* ReMath (header-only C math library): model of the procedural noise      *)
(* engine in include/re_noise.h.  Machine integers keep their C width:     *)
(* 32-bit words are pairs of 16-bit limbs, so that every product and sum   *)
(* is computed modulo 2^32 exactly as the C code computes it.              *)
(***************************************************************************)
EXTENDS Integers, Sequences, FiniteSets, TLC

(***************************************************************************)
(* Machine integers                                                        *)
(***************************************************************************)
I32Max == 2147483647
I32Min == -I32Max - 1
K8  == 2^8
K16 == 2^16

\* An RE_u32 value is <<hi, lo>>, hi and lo in 0..65535.
\* (RE_u32)x of an RE_i32 x: the two's-complement bit pattern.
U32OfI32(x) == << (x \div K16) % K16, x % K16 >>

\* Unsigned / int addition modulo 2^32.
AddU32(a, b) ==
    LET lo == a[2] + b[2]
        hi == a[1] + b[1] + (lo \div K16)
    IN  << hi % K16, lo % K16 >>

\* Product of two 16-bit limbs as a 32-bit word (no intermediate above 2^26).
Mul16(a, b) ==
    LET p0 == a * (b % K8)
        p1 == a * (b \div K8)
        lo == p0 + (p1 % K8) * K8
        hi == (lo \div K16) + (p1 \div K8)
    IN  << hi % K16, lo % K16 >>

\* x * c modulo 2^32 (C unsigned multiplication).
MulU32(x, c) ==
    LET ll == Mul16(x[2], c[2])
        hl == Mul16(x[1], c[2])
        lh == Mul16(x[2], c[1])
    IN  << (ll[1] + hl[2] + lh[2]) % K16, ll[2] >>

\* Bitwise exclusive or of two n-bit naturals.
RECURSIVE XorN(_, _, _)
XorN(a, b, n) ==
    IF n = 0 THEN 0
    ELSE ((a + b) % 2) + 2 * XorN(a \div 2, b \div 2, n - 1)

XorU32(a, b) == << XorN(a[1], b[1], 16), XorN(a[2], b[2], 16) >>

\* x >> 16 and x >> 15 on a 32-bit word.
\* (Mutant: the middle round shifting by 16 like the outer two.)
Shr15_By16(x) == << 0, x[1] >>

Shr16(x) == << 0, x[1] >>
Shr15(x) == << x[1] \div 32768, ((x[1] % 32768) * 2 + (x[2] \div 32768)) >>

\* w & (2^k - 1) on a 32-bit pattern, for k <= 16.
AndMask(w, pow2) == w[2] % pow2

\* (Mutant: x % 256 with C's remainder, negative for negative x.)
And255_CRem(x) == IF x >= 0 THEN x % 256 ELSE IF x = I32Min THEN 0 ELSE -((-x) % 256)

\* (Mutant: the index cast to a signed char.)
CastU8_Signed(x) ==
    LET b == AndMask(U32OfI32(x), 256) IN IF b >= 128 THEN b - 256 ELSE b

\* x & 255 and (RE_u8)x of an int: the low 8 bits of its two's-complement pattern.
And255(x) == AndMask(U32OfI32(x), 256)
CastU8(x) == AndMask(U32OfI32(x), 256)

\* (Mutant: the sum masked with 254, losing the low bit.)
AddAnd255_Mask254(a, y) == 2 * (AndMask(AddU32(U32OfI32(a), U32OfI32(y)), 256) \div 2)

\* (a + y) & 255 with the int addition wrapping at 32 bits.
AddAnd255(a, y) == AndMask(AddU32(U32OfI32(a), U32OfI32(y)), 256)

\* r % n for a 32-bit word r and 0 < n <= 1024 (C unsigned remainder).
ModU32(r, n) == ((r[1] % n) * (K16 % n) + r[2]) % n

(***************************************************************************)
(* RE_f32: IEEE-754 binary32 arithmetic, round to nearest, ties to even.   *)
(* A float is [s, m, e] with value (-1)^s * m * 2^e, where m = 0 and e = 0 *)
(* (zero) or 2^23 <= m < 2^24.  Results are rounded as the hardware rounds *)
(* them; the exponent is not bounded: no arithmetic done here comes near   *)
(* the overflow or underflow thresholds or produces NaN, and a subnormal   *)
(* (only compared and converted, never computed with) is written with its  *)
(* significand normalised.                                                 *)
(***************************************************************************)
FLT_MANT_DIG == 24

Pow2(k) == 2^k

RECURSIVE BitLen(_)
BitLen(n) == IF n = 0 THEN 0 ELSE 1 + BitLen(n \div 2)

FZero == [s |-> 0, m |-> 0, e |-> 0]

\* The float nearest to (-1)^s * (M + f) * 2^e, where M < 2^31 is an integer and
\* 0 < f < 1 if sticky, f = 0 otherwise.  With sticky, M must have 25 bits or more.
RoundF(s, M, e, sticky) ==
    IF M = 0 THEN FZero
    ELSE LET k == BitLen(M) - FLT_MANT_DIG
         IN  IF k <= 0
             THEN [s |-> s, m |-> M * Pow2(-k), e |-> e + k]
             ELSE LET q    == M \div Pow2(k)
                      rem  == M % Pow2(k)
                      half == Pow2(k - 1)
                      up   == \/ rem > half
                              \/ rem = half /\ (sticky \/ q % 2 = 1)
                      r    == IF up THEN q + 1 ELSE q
                  IN  IF r = Pow2(FLT_MANT_DIG)
                      THEN [s |-> s, m |-> Pow2(FLT_MANT_DIG - 1), e |-> e + k + 1]
                      ELSE [s |-> s, m |-> r, e |-> e + k]

\* A float given as an integer numerator over a power of two: n / 2^k.
FOfRatio(n, k) == RoundF(IF n < 0 THEN 1 ELSE 0, IF n < 0 THEN -n ELSE n, -k, FALSE)

\* (RE_f32)n of an int n.
I2F(n) ==
    IF n = I32Min THEN [s |-> 1, m |-> Pow2(FLT_MANT_DIG - 1), e |-> 8]
    ELSE FOfRatio(n, 0)

FNeg(a) == IF a.m = 0 THEN a ELSE [a EXCEPT !.s = 1 - a.s]

\* |a| < |b|, |a| = |b| on normalised floats.
MagLt(a, b) ==
    IF a.m = 0 THEN b.m /= 0
    ELSE IF b.m = 0 THEN FALSE
    ELSE a.e < b.e \/ (a.e = b.e /\ a.m < b.m)
MagEq(a, b) == a.m = b.m /\ (a.m = 0 \/ a.e = b.e)

\* a < b, a <= b, a = b as C compares floats (-0 = +0).
FLt(a, b) ==
    IF a.s = 1 /\ b.s = 0 THEN ~(a.m = 0 /\ b.m = 0)
    ELSE IF a.s = 0 /\ b.s = 1 THEN FALSE
    ELSE IF a.s = 0 THEN MagLt(a, b) ELSE MagLt(b, a)
FEq(a, b) == (a.m = 0 /\ b.m = 0) \/ (a.s = b.s /\ MagEq(a, b))
FLe(a, b) == FLt(a, b) \/ FEq(a, b)

\* a + b for |a| >= |b|, both non-zero: b is aligned to a with three guard bits
\* and a sticky bit, then the exact sum or difference is rounded.
AddAligned(a, b) ==
    LET d  == a.e - b.e
        A  == a.m * 8
        B  == IF d > 27 THEN 0 ELSE (b.m * 8) \div Pow2(d)
        st == IF d > 27 THEN TRUE ELSE (b.m * 8) % Pow2(d) /= 0
    IN  IF a.s = b.s
        THEN RoundF(a.s, A + B, a.e - 3, st)
        ELSE RoundF(a.s, IF st THEN A - B - 1 ELSE A - B, a.e - 3, st)

FAdd(a, b) ==
    IF a.m = 0 THEN (IF b.m = 0 /\ a.s /= b.s THEN FZero ELSE b)
    ELSE IF b.m = 0 THEN a
    ELSE IF MagLt(a, b) THEN AddAligned(b, a) ELSE AddAligned(a, b)

FSub(a, b) == FAdd(a, [b EXCEPT !.s = 1 - b.s])

\* a * b: the 48-bit product of the significands from 12-bit halves, then rounded.
FMul(a, b) ==
    IF a.m = 0 \/ b.m = 0 THEN [s |-> (a.s + b.s) % 2, m |-> 0, e |-> 0]
    ELSE LET h     == Pow2(12)
             a1    == a.m \div h
             a0    == a.m % h
             b1    == b.m \div h
             b0    == b.m % h
             cross == a1 * b0 + a0 * b1
             low   == a0 * b0 + (cross % h) * h
             lo    == low % Pow2(24)
             hi    == a1 * b1 + (cross \div h) + (low \div Pow2(24))
         IN  RoundF((a.s + b.s) % 2, hi * 4 + (lo \div Pow2(22)),
                    a.e + b.e + 22, lo % Pow2(22) /= 0)

\* floor(r * 2^n / d) and whether a remainder is left, for r < d, bit by bit.
RECURSIVE DivBits(_, _, _, _)
DivBits(q, r, d, n) ==
    IF n = 0 THEN << q, r /= 0 >>
    ELSE IF 2 * r >= d THEN DivBits(2 * q + 1, 2 * r - d, d, n - 1)
         ELSE DivBits(2 * q, 2 * r, d, n - 1)

\* a / b, b non-zero.
FDiv(a, b) ==
    IF a.m = 0 THEN [s |-> (a.s + b.s) % 2, m |-> 0, e |-> 0]
    ELSE LET qr == DivBits(a.m \div b.m, a.m % b.m, b.m, 26)
         IN  RoundF((a.s + b.s) % 2, qr[1], a.e - b.e - 26, qr[2])

(***************************************************************************)
(* Permutation tables                                                      *)
(***************************************************************************)
\* Ken Perlin's permutation, RE_NOISE_PERM[256]; C entry i is element i+1.
RE_NOISE_PERM == <<
    151,160,137, 91, 90, 15,131, 13,201, 95, 96, 53,194,233,  7,225,
    140, 36,103, 30, 69,142,  8, 99, 37,240, 21, 10, 23,190,  6,148,
    247,120,234, 75,  0, 26,197, 62, 94,252,219,203,117, 35, 11, 32,
     57,177, 33, 88,237,149, 56, 87,174, 20,125,136,171,168, 68,175,
     74,165, 71,134,139, 48, 27,166, 77,146,158,231, 83,111,229,122,
     60,211,133,230,220,105, 92, 41, 55, 46,245, 40,244,102,143, 54,
     65, 25, 63,161,  1,216, 80, 73,209, 76,132,187,208, 89, 18,169,
    200,196,135,130,116,188,159, 86,164,100,109,198,173,186,  3, 64,
     52,217,226,250,124,123,  5,202, 38,147,118,126,255, 82, 85,212,
    207,206, 59,227, 47, 16, 58, 17,182,189, 28, 42,223,183,170,213,
    119,248,152,  2, 44,154,163, 70,221,153,101,155,167, 43,172,  9,
    129, 22, 39,253, 19, 98,108,110, 79,113,224,232,178,185,112,104,
    218,246, 97,228,251, 34,242,193,238,210,144, 12,191,179,162,241,
     81, 51,145,235,249, 14,239,107, 49,192,214, 31,181,199,106,157,
    184, 84,204,176,115,121, 50, 45,127,  4,150,254,138,236,205, 93,
    222,114, 67, 29, 24, 72,243,141,128,195, 78, 66,215, 61,156,180 >>

\* RE_NOISE_PERM_256[512]: the same 256 entries, written out twice.
RE_NOISE_PERM_256 == <<
    151,160,137, 91, 90, 15,131, 13,201, 95, 96, 53,194,233,  7,225,
    140, 36,103, 30, 69,142,  8, 99, 37,240, 21, 10, 23,190,  6,148,
    247,120,234, 75,  0, 26,197, 62, 94,252,219,203,117, 35, 11, 32,
     57,177, 33, 88,237,149, 56, 87,174, 20,125,136,171,168, 68,175,
     74,165, 71,134,139, 48, 27,166, 77,146,158,231, 83,111,229,122,
     60,211,133,230,220,105, 92, 41, 55, 46,245, 40,244,102,143, 54,
     65, 25, 63,161,  1,216, 80, 73,209, 76,132,187,208, 89, 18,169,
    200,196,135,130,116,188,159, 86,164,100,109,198,173,186,  3, 64,
     52,217,226,250,124,123,  5,202, 38,147,118,126,255, 82, 85,212,
    207,206, 59,227, 47, 16, 58, 17,182,189, 28, 42,223,183,170,213,
    119,248,152,  2, 44,154,163, 70,221,153,101,155,167, 43,172,  9,
    129, 22, 39,253, 19, 98,108,110, 79,113,224,232,178,185,112,104,
    218,246, 97,228,251, 34,242,193,238,210,144, 12,191,179,162,241,
     81, 51,145,235,249, 14,239,107, 49,192,214, 31,181,199,106,157,
    184, 84,204,176,115,121, 50, 45,127,  4,150,254,138,236,205, 93,
    222,114, 67, 29, 24, 72,243,141,128,195, 78, 66,215, 61,156,180,
    151,160,137, 91, 90, 15,131, 13,201, 95, 96, 53,194,233,  7,225,
    140, 36,103, 30, 69,142,  8, 99, 37,240, 21, 10, 23,190,  6,148,
    247,120,234, 75,  0, 26,197, 62, 94,252,219,203,117, 35, 11, 32,
     57,177, 33, 88,237,149, 56, 87,174, 20,125,136,171,168, 68,175,
     74,165, 71,134,139, 48, 27,166, 77,146,158,231, 83,111,229,122,
     60,211,133,230,220,105, 92, 41, 55, 46,245, 40,244,102,143, 54,
     65, 25, 63,161,  1,216, 80, 73,209, 76,132,187,208, 89, 18,169,
    200,196,135,130,116,188,159, 86,164,100,109,198,173,186,  3, 64,
     52,217,226,250,124,123,  5,202, 38,147,118,126,255, 82, 85,212,
    207,206, 59,227, 47, 16, 58, 17,182,189, 28, 42,223,183,170,213,
    119,248,152,  2, 44,154,163, 70,221,153,101,155,167, 43,172,  9,
    129, 22, 39,253, 19, 98,108,110, 79,113,224,232,178,185,112,104,
    218,246, 97,228,251, 34,242,193,238,210,144, 12,191,179,162,241,
     81, 51,145,235,249, 14,239,107, 49,192,214, 31,181,199,106,157,
    184, 84,204,176,115,121, 50, 45,127,  4,150,254,138,236,205, 93,
    222,114, 67, 29, 24, 72,243,141,128,195, 78, 66,215, 61,156,180 >>

\* Reading entry i of a C array held as a tuple.  An index outside the array is
\* undefined behaviour: the value read there is arbitrary (see HashReturn).
TableRead(t, i) == IF i \in 0..(Len(t) - 1) THEN t[i + 1] ELSE 0

(***************************************************************************)
(* Hash core                                                               *)
(***************************************************************************)
\* RE_PCG_MIX32: x ^= x>>16; x *= 0x7feb352d; x ^= x>>15; x *= 0x846ca68b; x ^= x>>16
MixC1 == U32OfI32(2146121005)  \* 0x7feb352d
MixC2 == << 33900, 42635 >>    \* 0x846ca68b = 0x846c * 2^16 + 0xa68b
RE_PCG_MIX32(x) ==
    LET x1 == XorU32(x, Shr16(x))
        x2 == MulU32(x1, MixC1)
        x3 == XorU32(x2, Shr15(x2))
        x4 == MulU32(x3, MixC2)
    IN  XorU32(x4, Shr16(x4))

\* RE_HASH3D_PCG: (u32)x*73856093 ^ (u32)y*19349663 ^ (u32)z*83492791, then mixed.
PcgM1 == U32OfI32(73856093)
PcgM2 == U32OfI32(19349663)
PcgM3 == U32OfI32(83492791)
RE_HASH3D_PCG(x, y, z) ==
    LET h == XorU32(XorU32(MulU32(U32OfI32(x), PcgM1), MulU32(U32OfI32(y), PcgM2)),
                    MulU32(U32OfI32(z), PcgM3))
    IN  RE_PCG_MIX32(h)

\* Hash mode 1: RE_HASH3D on the doubled 256-entry table.  The result carries the
\* indices used to read the table, in order.
RE_HASH3D_256(x, y, z) ==
    LET i1 == And255(x)
        a  == TableRead(RE_NOISE_PERM_256, i1)
        i2 == AddAnd255(a, y)
        b  == TableRead(RE_NOISE_PERM_256, i2)
        i3 == AddAnd255(b, z)
        c  == TableRead(RE_NOISE_PERM_256, i3)
    IN  [ret |-> c, reads |-> << i1, i2, i3 >>, size |-> Len(RE_NOISE_PERM_256)]

(***************************************************************************)
(* State: the hash mode the library was compiled with, the two globals of  *)
(* hash mode 2, the call that returned last, an earlier call kept for      *)
(* comparison, and (in the sweeps) the results of all calls so far.        *)
(***************************************************************************)
VARIABLES mode, RE_NOISE_TABLE_INITED, RE_NOISE_PERM_1024, call, mem, log

\* RE_NOISE_HASH, RE_NOISE_HASH2, RE_NOISE_HASH3, RE_NOISE_HASH4 on RE_NOISE_PERM.
RE_NOISE_HASH(x) ==
    LET i1 == CastU8(x)
    IN  [ret |-> TableRead(RE_NOISE_PERM, i1), reads |-> << i1 >>,
         size |-> Len(RE_NOISE_PERM)]

RE_NOISE_HASH2(x, y) ==
    LET h  == RE_NOISE_HASH(x)
        i2 == AddAnd255(h.ret, y)
    IN  [ret |-> TableRead(RE_NOISE_PERM, i2), reads |-> Append(h.reads, i2),
         size |-> Len(RE_NOISE_PERM)]

\* (Mutant: in hash mode 2 the last read goes to the table of that mode.)
RE_NOISE_HASH3_Shared(x, y, z) ==
    LET h  == RE_NOISE_HASH2(x, y)
        i3 == AddAnd255(h.ret, z)
        t  == IF mode = 2 THEN RE_NOISE_PERM_1024 ELSE RE_NOISE_PERM
    IN  [ret |-> TableRead(t, i3), reads |-> Append(h.reads, i3), size |-> Len(t)]
RE_NOISE_HASH3(x, y, z) ==
    LET h  == RE_NOISE_HASH2(x, y)
        i3 == AddAnd255(h.ret, z)
    IN  [ret |-> TableRead(RE_NOISE_PERM, i3), reads |-> Append(h.reads, i3),
         size |-> Len(RE_NOISE_PERM)]

RE_NOISE_HASH4(x, y, z, w) ==
    LET h  == RE_NOISE_HASH3(x, y, z)
        i4 == AddAnd255(h.ret, w)
    IN  [ret |-> TableRead(RE_NOISE_PERM, i4), reads |-> Append(h.reads, i4),
         size |-> Len(RE_NOISE_PERM)]

\* RE_PCG_MIX32_u32 and RE_OS3D_HASH: the OpenSimplex copy of the mixer and its hash.
RE_PCG_MIX32_u32(x) ==
    LET x1 == XorU32(x, Shr16(x))
        x2 == MulU32(x1, MixC1)
        x3 == XorU32(x2, Shr15(x2))
        x4 == MulU32(x3, MixC2)
    IN  XorU32(x4, Shr16(x4))

Os3dM1 == U32OfI32(29168061)    \* 0x1bd11bd
Os3dM2 == U32OfI32(61680093)    \* 0x3ad29dd
Os3dM3 == U32OfI32(109326845)   \* 0x68431fd
RE_OS3D_HASH(x, y, z) ==
    LET h == XorU32(XorU32(MulU32(U32OfI32(x), Os3dM1), MulU32(U32OfI32(y), Os3dM2)),
                    MulU32(U32OfI32(z), Os3dM3))
    IN  RE_PCG_MIX32_u32(h)

(***************************************************************************)
(* Hash mode 2: the 1024-entry table, built lazily                         *)
(***************************************************************************)
RE_NOISE_TABLE_SIZE == 1024

\* static RE_u16 RE_NOISE_PERM_1024[2048], zero-initialised.
\* (Tables are kept as tuples: "\o << >>" turns a function on 1..n into one.)
ZeroTable == [i \in 1..(2 * RE_NOISE_TABLE_SIZE) |-> 0] \o << >>

\* for (i = 0; i < SIZE; i++) PERM[i] = i
FillTable(t) ==
    [i \in 1..(2 * RE_NOISE_TABLE_SIZE) |->
        IF i <= RE_NOISE_TABLE_SIZE THEN i - 1 ELSE t[i]] \o << >>

\* j = PCG_MIX32((u32)i * 1664525u) % (i + 1)
ShuffleIndex(i) == ModU32(RE_PCG_MIX32(MulU32(U32OfI32(i), U32OfI32(1664525))), i + 1)

\* The index j of every iteration, evaluated once.
ShuffleIndices == [i \in 1..(RE_NOISE_TABLE_SIZE - 1) |-> ShuffleIndex(i)]

\* One iteration of the shuffle loop: swap entries i and j.
ShuffleStep(t, i) ==
    LET j == ShuffleIndices[i]
    IN  [t EXCEPT ![i + 1] = t[j + 1], ![j + 1] = t[i + 1]]

\* The iterations i = hi, hi-1, .., lo of the shuffle loop, in that order.  (The
\* range is halved, and the first half's table evaluated before the second half
\* starts, only to keep the evaluation shallow.)
RECURSIVE ShuffleRange(_, _, _)
ShuffleRange(t, hi, lo) ==
    IF hi < lo THEN t
    ELSE IF hi = lo THEN ShuffleStep(t, hi)
    ELSE LET mid == (hi + lo) \div 2
             u   == ShuffleRange(t, hi, mid + 1)
         IN  IF Len(u) = 0 THEN u ELSE ShuffleRange(u, mid, lo)

\* for (i = SIZE-1; i > 0; i--) swap
ShuffleFrom(t, i) == ShuffleRange(t, i, 1)

\* (Mutant: the upper half is left as it was.)
DuplicateTable_None(t) == t
\* for (i = 0; i < SIZE; i++) PERM[i + SIZE] = PERM[i]
DuplicateTable(t) ==
    [i \in 1..(2 * RE_NOISE_TABLE_SIZE) |->
        IF i > RE_NOISE_TABLE_SIZE THEN t[i - RE_NOISE_TABLE_SIZE] ELSE t[i]] \o << >>

BuildTable(t) == DuplicateTable(ShuffleFrom(FillTable(t), RE_NOISE_TABLE_SIZE - 1))

\* The table a build from the zeroed array gives, evaluated once.
BuiltFromZero == BuildTable(ZeroTable)

\* RE_NOISE_INIT_1024 run to completion by one thread: [inited, table] after it.
RE_NOISE_INIT_1024(inited, table) ==
    IF inited THEN [inited |-> inited, table |-> table]
    ELSE [inited |-> TRUE,
          table  |-> IF table = ZeroTable THEN BuiltFromZero ELSE BuildTable(table)]

\* Hash mode 2: RE_HASH3D on a table (after the lazy initialisation).
RE_HASH3D_1024(table, x, y, z) ==
    LET mask == RE_NOISE_TABLE_SIZE
        i1  == AndMask(U32OfI32(x), mask)
        i2  == AndMask(U32OfI32(y), mask)
        i3  == AndMask(U32OfI32(z), mask)
        idx == TableRead(table, i1) + TableRead(table, i2) + TableRead(table, i3)
        i4  == AndMask(U32OfI32(idx), mask)
    IN  [ret |-> TableRead(table, i4), reads |-> << i1, i2, i3, i4 >>,
         size |-> Len(table)]

\* (Mutant: in hash mode 2 the table is read as it was when the call began, the
\* initialisation running too late for the call that triggers it.)
RE_HASH3D_InitTooLate(m, inited, table, x, y, z) ==
    IF m = 1
    THEN LET h == RE_HASH3D_256(x, y, z)
         IN  [inited |-> inited, table |-> table,
              ret |-> h.ret, reads |-> h.reads, size |-> h.size]
    ELSE LET st == RE_NOISE_INIT_1024(inited, table)
             h  == RE_HASH3D_1024(table, x, y, z)
         IN  [inited |-> st.inited, table |-> st.table,
              ret |-> h.ret, reads |-> h.reads, size |-> h.size]

\* RE_HASH3D as compiled under RE_NOISE_HASH_MODE m (1 or 2), run by one thread:
\* the globals after the call and what the call read and returned.
RE_HASH3D(m, inited, table, x, y, z) ==
    IF m = 1
    THEN LET h == RE_HASH3D_256(x, y, z)
         IN  [inited |-> inited, table |-> table,
              ret |-> h.ret, reads |-> h.reads, size |-> h.size]
    ELSE LET st == RE_NOISE_INIT_1024(inited, table)
             h  == RE_HASH3D_1024(st.table, x, y, z)
         IN  [inited |-> st.inited, table |-> st.table,
              ret |-> h.ret, reads |-> h.reads, size |-> h.size]

\* RE_HASH3D_to_f32 on the value h that RE_HASH3D returned: (RE_f32)h * (1.0f / 255.0f).
RE_HASH3D_to_f32(h) == FMul(I2F(h), FDiv(I2F(1), I2F(255)))

(***************************************************************************)
(* Floor, fade, lerp                                                       *)
(***************************************************************************)
\* x lies in the range of RE_i32: -2^31 <= x < 2^31.
InI32Range(x) == x.m = 0 \/ x.e <= 7 \/ (x.s = 1 /\ x.e = 8 /\ x.m = Pow2(23))

\* (RE_i32)x: the value truncated toward zero.  For x outside the range of RE_i32
\* the conversion is undefined; builds return INT32_MIN (x86) or saturate.
F2I(x) ==
    IF ~InI32Range(x) THEN {I32Min, I32Max}
    ELSE IF x.m = 0 THEN {0}
    ELSE IF x.e = 8 THEN {I32Min}
    ELSE LET mag == IF x.e >= 0 THEN x.m * Pow2(x.e)
                    ELSE IF x.e <= -FLT_MANT_DIG THEN 0
                    ELSE x.m \div Pow2(-x.e)
         IN  {IF x.s = 1 THEN -mag ELSE mag}

\* xi - 1, xi + 1 on RE_i32, wrapping where the signed operation overflows.
DecI32(xi) == IF xi = I32Min THEN I32Max ELSE xi - 1
IncI32(xi) == IF xi = I32Max THEN I32Min ELSE xi + 1

\* (Mutant: plain C truncation.)
RE_FASTFLOOR_f32_Trunc(x) == F2I(x)

\* RE_FASTFLOOR_f32: xi = (RE_i32)x; return (x < (RE_f32)xi) ? (xi - 1) : xi.
\* The set of values a call can return.
RE_FASTFLOOR_f32(x) == {IF FLt(x, I2F(xi)) THEN DecI32(xi) ELSE xi : xi \in F2I(x)}

\* RE_f64 is modelled on the doubles whose significand has at most 24 significant
\* bits, written [s, m, e] like a float.  An RE_i64 is [base, off]: the integer
\* base + off, base an integral value [s, m, e].
InI64Range(x) == x.m = 0 \/ x.e <= 39 \/ (x.s = 1 /\ x.e = 40 /\ x.m = Pow2(23))
I64Min == [base |-> [s |-> 1, m |-> Pow2(23), e |-> 40], off |-> 0]
I64Max == [base |-> [s |-> 0, m |-> Pow2(23), e |-> 40], off |-> -1]

\* x truncated toward zero, as an integral value.
TruncF(x) ==
    IF x.m = 0 \/ x.e <= -FLT_MANT_DIG THEN FZero
    ELSE IF x.e >= 0 THEN x
    ELSE RoundF(x.s, x.m \div Pow2(-x.e), 0, FALSE)

\* (RE_i64)x, undefined outside the range of RE_i64 as for F2I.
F2I64(x) == IF InI64Range(x) THEN {[base |-> TruncF(x), off |-> 0]} ELSE {I64Min, I64Max}

\* (RE_f64)xi of a value that F2I64 returned: exact when off = 0; INT64_MAX
\* rounds to 2^63.
I64ToF64(xi) == xi.base

DecI64(xi) == IF xi = I64Min THEN I64Max ELSE [xi EXCEPT !.off = @ - 1]

\* RE_FASTFLOOR_f64: the same two lines on RE_f64 and RE_i64.
RE_FASTFLOOR_f64(x) == {IF FLt(x, I64ToF64(xi)) THEN DecI64(xi) ELSE xi : xi \in F2I64(x)}

\* RE_NOISE_FADE_f32: t * t * t * (t * (t * 6.f - 15.f) + 10.f).
RE_NOISE_FADE_f32(t) ==
    FMul(FMul(FMul(t, t), t),
         FAdd(FMul(t, FSub(FMul(t, I2F(6)), I2F(15))), I2F(10)))

\* RE_NOISE_LERP_f32: a + t * (b - a).
RE_NOISE_LERP_f32(a, b, t) == FAdd(a, FMul(t, FSub(b, a)))

(***************************************************************************)
(* Value noise                                                             *)
(***************************************************************************)
\* RE_NOISE_VALUE_FROM_HASH_f32: (RE_f32)h / 127.5f - 1.0f.
RE_NOISE_VALUE_FROM_HASH_f32(h) == FSub(FDiv(I2F(h), FOfRatio(255, 1)), I2F(1))

\* X + d for d in {0, 1}.
Off(X, d) == IF d = 1 THEN IncI32(X) ELSE X

\* RE_NOISE_VALUE2_f32 after the two floors returned X and Y.
Value2At(x, y, X, Y) ==
    LET fx == FSub(x, I2F(X))
        fy == FSub(y, I2F(Y))
        u  == RE_NOISE_FADE_f32(fx)
        v  == RE_NOISE_FADE_f32(fy)
        a  == RE_NOISE_VALUE_FROM_HASH_f32(RE_NOISE_HASH2(X, Y).ret)
        b  == RE_NOISE_VALUE_FROM_HASH_f32(RE_NOISE_HASH2(IncI32(X), Y).ret)
        c  == RE_NOISE_VALUE_FROM_HASH_f32(RE_NOISE_HASH2(X, IncI32(Y)).ret)
        d  == RE_NOISE_VALUE_FROM_HASH_f32(RE_NOISE_HASH2(IncI32(X), IncI32(Y)).ret)
        i1 == RE_NOISE_LERP_f32(a, b, u)
        i2 == RE_NOISE_LERP_f32(c, d, u)
    IN  RE_NOISE_LERP_f32(i1, i2, v)

RE_NOISE_VALUE2_f32(x, y) ==
    {Value2At(x, y, X, Y) : X \in RE_FASTFLOOR_f32(x), Y \in RE_FASTFLOOR_f32(y)}

\* RE_NOISE_VALUE3_f32 after the three floors.
Value3At(x, y, z, X, Y, Z) ==
    LET u == RE_NOISE_FADE_f32(FSub(x, I2F(X)))
        v == RE_NOISE_FADE_f32(FSub(y, I2F(Y)))
        w == RE_NOISE_FADE_f32(FSub(z, I2F(Z)))
        c(dx, dy, dz) ==
            RE_NOISE_VALUE_FROM_HASH_f32(RE_NOISE_HASH3(Off(X, dx), Off(Y, dy), Off(Z, dz)).ret)
        i1 == RE_NOISE_LERP_f32(RE_NOISE_LERP_f32(c(0, 0, 0), c(1, 0, 0), u),
                                RE_NOISE_LERP_f32(c(0, 1, 0), c(1, 1, 0), u), v)
        i2 == RE_NOISE_LERP_f32(RE_NOISE_LERP_f32(c(0, 0, 1), c(1, 0, 1), u),
                                RE_NOISE_LERP_f32(c(0, 1, 1), c(1, 1, 1), u), v)
    IN  RE_NOISE_LERP_f32(i1, i2, w)

RE_NOISE_VALUE3_f32(x, y, z) ==
    {Value3At(x, y, z, X, Y, Z) :
        X \in RE_FASTFLOOR_f32(x), Y \in RE_FASTFLOOR_f32(y), Z \in RE_FASTFLOOR_f32(z)}

\* RE_NOISE_VALUE4_f32 after the four floors.  accum[idx] is filled by the loops
\* dz, dy, dx, dw (dw innermost), so idx = 8 dz + 4 dy + 2 dx + dw.
Value4At(x, y, z, wv, X, Y, Z, W) ==
    LET u == RE_NOISE_FADE_f32(FSub(x, I2F(X)))
        v == RE_NOISE_FADE_f32(FSub(y, I2F(Y)))
        t == RE_NOISE_FADE_f32(FSub(z, I2F(Z)))
        s == RE_NOISE_FADE_f32(FSub(wv, I2F(W)))
        accum(idx) ==
            LET dz == idx \div 8
                dy == (idx \div 4) % 2
                dx == (idx \div 2) % 2
                dw == idx % 2
            IN  RE_NOISE_VALUE_FROM_HASH_f32(
                    RE_NOISE_HASH4(Off(X, dx), Off(Y, dy), Off(Z, dz), Off(W, dw)).ret)
        L(a, b, k) == RE_NOISE_LERP_f32(a, b, k)
        i1 == L(L(L(accum(0), accum(1), u), L(accum(2), accum(3), u), v),
                L(L(accum(4), accum(5), u), L(accum(6), accum(7), u), v),
                t)
        i2 == L(L(L(accum(8), accum(9), u), L(accum(10), accum(11), u), v),
                L(L(accum(12), accum(13), u), L(accum(14), accum(15), u), v),
                t)
    IN  L(i1, i2, s)

RE_NOISE_VALUE4_f32(x, y, z, wv) ==
    {Value4At(x, y, z, wv, X, Y, Z, W) :
        X \in RE_FASTFLOOR_f32(x), Y \in RE_FASTFLOOR_f32(y),
        Z \in RE_FASTFLOOR_f32(z), W \in RE_FASTFLOOR_f32(wv)}

(***************************************************************************)
(* Classic Perlin 3D                                                       *)
(***************************************************************************)
\* RE_FABS_f32: the sign bit cleared.
RE_FABS_f32(x) == [x EXCEPT !.s = 0]

\* RE_NOISE_GRAD3[12][3].
RE_NOISE_GRAD3 == <<
    <<  1,  1,  0 >>, << -1,  1,  0 >>, <<  1, -1,  0 >>, << -1, -1,  0 >>,
    <<  1,  0,  1 >>, << -1,  0,  1 >>, <<  1,  0, -1 >>, << -1,  0, -1 >>,
    <<  0,  1,  1 >>, <<  0, -1,  1 >>, <<  0,  1, -1 >>, <<  0, -1, -1 >> >>

\* G3(h): RE_NOISE_GRAD3[(h) % 12], h >= 0.
G3(h) == RE_NOISE_GRAD3[(h % 12) + 1]

\* g[0]*x1 + g[1]*y1 + g[2]*z1 with the RE_i8 components converted to float.
Dot3(g, x1, y1, z1) ==
    FAdd(FAdd(FMul(I2F(g[1]), x1), FMul(I2F(g[2]), y1)), FMul(I2F(g[3]), z1))

\* (Mutant: B hashed from the column of A.)
PerlinB_OwnColumn(X, Y) == RE_NOISE_HASH2(X, Y).ret

\* B = RE_NOISE_HASH2(X + 1, Y).
PerlinB(X, Y) == RE_NOISE_HASH2(X + 1, Y).ret

\* RE_NOISE_PERLIN3_f32_scalar after the floors returned FX, FY, FZ (for the
\* cell) and GX, GY, GZ (for the offsets inside the cube).
Perlin3At(x, y, z, FX, FY, FZ, GX, GY, GZ) ==
    LET X   == And255(FX)
        Y   == And255(FY)
        Z   == And255(FZ)
        xf  == FSub(x, I2F(GX))
        yf  == FSub(y, I2F(GY))
        zf  == FSub(z, I2F(GZ))
        u   == RE_NOISE_FADE_f32(xf)
        v   == RE_NOISE_FADE_f32(yf)
        w   == RE_NOISE_FADE_f32(zf)
        A   == RE_NOISE_HASH2(X, Y).ret
        AA  == RE_NOISE_HASH(A + Z).ret
        AB  == RE_NOISE_HASH(A + Z + 1).ret
        B   == PerlinB(X, Y)
        BA  == RE_NOISE_HASH(B + Z).ret
        BB  == RE_NOISE_HASH(B + Z + 1).ret
        gAA == G3(AA)
        gBA == G3(BA)
        gAB == G3(AB)
        gBB == G3(BB)
        one == I2F(1)
        xm  == FSub(xf, one)
        ym  == FSub(yf, one)
        zm  == FSub(zf, one)
        dotAA  == Dot3(gAA, xf, yf, zf)
        dotBA  == Dot3(gBA, xm, yf, zf)
        dotAB  == Dot3(gAB, xf, ym, zf)
        dotBB  == Dot3(gBB, xm, ym, zf)
        xLerp1 == RE_NOISE_LERP_f32(dotAA, dotBA, u)
        xLerp2 == RE_NOISE_LERP_f32(dotAB, dotBB, u)
        yLerp  == RE_NOISE_LERP_f32(xLerp1, xLerp2, v)
    IN  RE_NOISE_LERP_f32(yLerp,
            RE_NOISE_LERP_f32(
                RE_NOISE_LERP_f32(Dot3(gAA, xf, yf, zm), Dot3(gBA, xm, yf, zm), u),
                RE_NOISE_LERP_f32(Dot3(gAB, xf, ym, zm), Dot3(gBB, xm, ym, zm), u),
                v),
            w)

\* The values a call of RE_NOISE_PERLIN3_f32_scalar can return; the floor of each
\* coordinate is taken twice.
RE_NOISE_PERLIN3_f32_scalar(x, y, z) ==
    {Perlin3At(x, y, z, FX, FY, FZ, GX, GY, GZ) :
        FX \in RE_FASTFLOOR_f32(x), FY \in RE_FASTFLOOR_f32(y), FZ \in RE_FASTFLOOR_f32(z),
        GX \in RE_FASTFLOOR_f32(x), GY \in RE_FASTFLOOR_f32(y), GZ \in RE_FASTFLOOR_f32(z)}

\* RE_NOISE_PERLIN3_f32: every SIMD variant falls back to the scalar version.
RE_NOISE_PERLIN3_f32(x, y, z) == RE_NOISE_PERLIN3_f32_scalar(x, y, z)

(***************************************************************************)
(* OpenSimplex 3D.  An evaluation is returned with its locals and with the *)
(* order in which it evaluated, per corner, the attenuation ("attn"), the  *)
(* hash ("hash") and the gradient lookup ("grad").  Records that reach the *)
(* state have their fields written in one fixed order throughout.          *)
(***************************************************************************)
OS3D_SCALE_F32 == 32
R3 == FDiv(I2F(2), I2F(3))
RadiusSmooth == [s |-> 0, m |-> 10066330, e |-> -24]    \* 0.6f
RadiusFast == FOfRatio(3, 2)             \* 0.75f

B01(b) == IF b THEN 1 ELSE 0

\* rx, ry, rz of the rank-ordered variants.
\* (Mutant: x ranked by strict comparison with y.)
RankOrder_StrictXY(x0, y0, z0) ==
    LET rx == B01(FLt(y0, x0)) + B01(FLe(z0, x0))
        ry == B01(FLe(x0, y0)) + B01(FLe(z0, y0))
    IN  << rx, ry, 3 - (rx + ry) >>
RankOrder(x0, y0, z0) ==
    LET rx == B01(FLe(y0, x0)) + B01(FLe(z0, x0))
        ry == B01(FLe(x0, y0)) + B01(FLe(z0, y0))
    IN  << rx, ry, 3 - (rx + ry) >>

LATTICE_CORNER == << << 0, 0, 0 >>, << 1, 0, 0 >>, << 0, 1, 0 >>, << 0, 0, 1 >>, << 1, 1, 1 >> >>

\* dx, dy, dz of corner i (from 0) once the rank logic has overridden them.
RankedCorner(i, r) ==
    LET c == LATTICE_CORNER[i + 1]
    IN  << IF i = 1 THEN B01(r[1] >= 2) ELSE c[1],
           IF i = 2 THEN B01(r[2] >= 2) ELSE c[2],
           IF i = 3 THEN B01(r[3] >= 2) ELSE c[3] >>

SqLen(px, py, pz) == FAdd(FAdd(FMul(px, px), FMul(py, py)), FMul(pz, pz))

\* (Mutant: a corner contributes whatever its attenuation.)
CornerPasses_Always(attn) == TRUE
CornerPasses(attn) == FLt(FZero, attn)

\* One iteration of the corner loop of a rank-ordered variant.
RankedCornerStep(i, o, xi, yi, zi, r, radius, acc) ==
    LET d    == RankedCorner(i, r)
        off  == FMul(R3, I2F(i))
        px   == FAdd(FSub(o[1], I2F(d[1])), off)
        py   == FAdd(FSub(o[2], I2F(d[2])), off)
        pz   == FAdd(FSub(o[3], I2F(d[3])), off)
        attn == FSub(radius, SqLen(px, py, pz))
        hash == RE_NOISE_HASH3(xi + d[1], yi + d[2], zi + d[3]).ret
        dot  == Dot3(G3(hash), px, py, pz)
        a2   == FMul(attn, attn)
    IN  IF CornerPasses(attn)
        THEN [value   |-> FAdd(acc.value, FMul(FMul(a2, a2), dot)),
              order   |-> acc.order \o << << "attn", i >>, << "hash", i >>, << "grad", i >> >>,
              corners |-> Append(acc.corners, [delta |-> d, point |-> << px, py, pz >>, atten |-> attn,
                                               contrib |-> FMul(FMul(a2, a2), dot)])]
        ELSE [value   |-> acc.value,
              order   |-> Append(acc.order, << "attn", i >>),
              corners |-> Append(acc.corners, [delta |-> d, point |-> << px, py, pz >>, atten |-> attn,
                                               contrib |-> FZero])]

RECURSIVE RankedCorners(_, _, _, _, _, _, _, _)
RankedCorners(i, n, o, xi, yi, zi, r, radius) ==
    IF i = 0 THEN RankedCornerStep(0, o, xi, yi, zi, r, radius,
                                   [value |-> FZero, order |-> << >>, corners |-> << >>])
    ELSE RankedCornerStep(i, o, xi, yi, zi, r, radius,
                          RankedCorners(i - 1, n, o, xi, yi, zi, r, radius))

\* The rank-ordered evaluation of (x, y, z) once the three floors are xi, yi, zi.
Os3dRankedAt(x, y, z, xi, yi, zi, n, radius) ==
    LET t  == FMul(I2F(xi + yi + zi), R3)
        X0 == FSub(I2F(xi), t)
        Y0 == FSub(I2F(yi), t)
        Z0 == FSub(I2F(zi), t)
        o  == << FSub(x, X0), FSub(y, Y0), FSub(z, Z0) >>
        r  == RankOrder(o[1], o[2], o[3])
        a  == RankedCorners(n - 1, n, o, xi, yi, zi, r, radius)
    IN  [ret |-> FMul(a.value, I2F(OS3D_SCALE_F32)), order |-> a.order, corners |-> a.corners,
         cell |-> << xi, yi, zi >>, origin |-> << X0, Y0, Z0 >>, offs |-> o, ranks |-> r]

\* xs, ys, zs: the skew into the lattice.
Skew(x, y, z) ==
    LET s == FMul(FAdd(FAdd(x, y), z), R3)
    IN  << FAdd(x, s), FAdd(y, s), FAdd(z, s) >>

Os3dRanked(x, y, z, n, radius) ==
    LET q == Skew(x, y, z)
    IN  {Os3dRankedAt(x, y, z, xi, yi, zi, n, radius) :
            xi \in RE_FASTFLOOR_f32(q[1]), yi \in RE_FASTFLOOR_f32(q[2]),
            zi \in RE_FASTFLOOR_f32(q[3])}

RE_NOISE_OS3D_SMOOTH_f32(x, y, z) == Os3dRanked(x, y, z, 5, RadiusSmooth)
RE_NOISE_OS3D_FAST_f32(x, y, z) == Os3dRanked(x, y, z, 4, RadiusFast)

\* RE_OS3D_ROTATE_FAST_f32: OS3D_R_INVERT_F32 expands to 1.0f / OS3D_R3 unparenthesised,
\* so each sum is multiplied by 1.0f and then divided by 2.0f/3.0f.
RE_OS3D_ROTATE_FAST_f32(x, y, z) ==
    << FDiv(FMul(FAdd(FAdd(x, y), z), I2F(1)), R3),
       FDiv(FMul(FSub(FSub(x, y), z), I2F(1)), R3),
       FDiv(FMul(FSub(FAdd(FNeg(x), y), z), I2F(1)), R3) >>

\* (Mutant: the x axis taken only when fx is strictly above fy.)
CornersFastAt_StrictXY(x, y, z, i, j, k) ==
    LET fx   == FSub(x, I2F(i))
        fy   == FSub(y, I2F(j))
        fz   == FSub(z, I2F(k))
        fx1  == FSub(fx, I2F(1))
        fy1  == FSub(fy, I2F(1))
        fz1  == FSub(fz, I2F(1))
        a    == FLt(fy, fx)
        b    == FLe(fz, fy)
        csel == FLe(fz, fx)
        C(ci, cj, ck, dx, dy, dz) ==
            [i |-> ci, j |-> cj, k |-> ck, dx |-> dx, dy |-> dy, dz |-> dz,
             hash |-> RE_OS3D_HASH(ci, cj, ck)]
    IN  << C(i, j, k, fx, fy, fz),
           IF a /\ csel THEN C(i + 1, j, k, fx1, fy, fz)
           ELSE IF ~a /\ b THEN C(i, j + 1, k, fx, fy1, fz)
           ELSE C(i, j, k + 1, fx, fy, fz1),
           C(i + 1, j + 1, k, fx1, fy1, fz),
           C(i, j + 1, k + 1, fx, fy1, fz1) >>
\* The four corners of RE_OS3D_GET_CORNERS_FAST_f32, each with its hash.
CornersFastAt(x, y, z, i, j, k) ==
    LET fx   == FSub(x, I2F(i))
        fy   == FSub(y, I2F(j))
        fz   == FSub(z, I2F(k))
        fx1  == FSub(fx, I2F(1))
        fy1  == FSub(fy, I2F(1))
        fz1  == FSub(fz, I2F(1))
        a    == FLe(fy, fx)
        b    == FLe(fz, fy)
        csel == FLe(fz, fx)
        C(ci, cj, ck, dx, dy, dz) ==
            [i |-> ci, j |-> cj, k |-> ck, dx |-> dx, dy |-> dy, dz |-> dz,
             hash |-> RE_OS3D_HASH(ci, cj, ck)]
    IN  << C(i, j, k, fx, fy, fz),
           IF a /\ csel THEN C(i + 1, j, k, fx1, fy, fz)
           ELSE IF ~a /\ b THEN C(i, j + 1, k, fx, fy1, fz)
           ELSE C(i, j, k + 1, fx, fy, fz1),
           C(i + 1, j + 1, k, fx1, fy1, fz),
           C(i, j + 1, k + 1, fx, fy1, fz1) >>

RE_OS3D_GET_CORNERS_FAST_f32(x, y, z) ==
    {CornersFastAt(x, y, z, i, j, k) :
        i \in RE_FASTFLOOR_f32(x), j \in RE_FASTFLOOR_f32(y), k \in RE_FASTFLOOR_f32(z)}

RE_OS3D_GRAD_DOT_FAST_f32(hash, dx, dy, dz) ==
    Dot3(RE_NOISE_GRAD3[ModU32(hash, 12) + 1], dx, dy, dz)

RE_OS3D_ATTENUATE_FAST_f32(dx, dy, dz) ==
    LET t  == FSub(RadiusFast, SqLen(dx, dy, dz))
        t2 == FMul(t, t)
    IN  IF FLe(t, FZero) THEN FZero ELSE FMul(t2, t2)

\* One iteration of the accumulation loop of RE_NOISE_OPENSIMPLEX3D_FAST_f32.
FastCornerStep(i, c, acc) ==
    LET att == RE_OS3D_ATTENUATE_FAST_f32(c[i + 1].dx, c[i + 1].dy, c[i + 1].dz)
        dot == RE_OS3D_GRAD_DOT_FAST_f32(c[i + 1].hash, c[i + 1].dx, c[i + 1].dy, c[i + 1].dz)
    IN  IF CornerPasses(att)
        THEN [value   |-> FAdd(acc.value, FMul(att, dot)),
              order   |-> acc.order \o << << "attn", i >>, << "grad", i >> >>,
              corners |-> Append(acc.corners, [delta |-> << c[i + 1].i, c[i + 1].j, c[i + 1].k >>,
                                               point |-> << c[i + 1].dx, c[i + 1].dy, c[i + 1].dz >>,
                                               atten |-> att, contrib |-> FMul(att, dot)])]
        ELSE [value   |-> acc.value,
              order   |-> Append(acc.order, << "attn", i >>),
              corners |-> Append(acc.corners, [delta |-> << c[i + 1].i, c[i + 1].j, c[i + 1].k >>,
                                               point |-> << c[i + 1].dx, c[i + 1].dy, c[i + 1].dz >>,
                                               atten |-> att, contrib |-> FZero])]

RECURSIVE FastCorners(_, _)
FastCorners(i, c) ==
    IF i = 0
    THEN FastCornerStep(0, c, [value |-> FZero, corners |-> << >>,
                               order |-> << << "hash", 0 >>, << "hash", 1 >>,
                                            << "hash", 2 >>, << "hash", 3 >> >>])
    ELSE FastCornerStep(i, c, FastCorners(i - 1, c))

RE_NOISE_OPENSIMPLEX3D_FAST_f32(x, y, z) ==
    LET q == RE_OS3D_ROTATE_FAST_f32(x, y, z)
    IN  {LET a == FastCorners(3, c)
         IN  [ret |-> FMul(a.value, I2F(OS3D_SCALE_F32)), order |-> a.order,
              corners |-> a.corners, cell |-> << c[1].i, c[1].j, c[1].k >>, origin |-> q,
              offs |-> << c[1].dx, c[1].dy, c[1].dz >>, ranks |-> << >>] :
         c \in RE_OS3D_GET_CORNERS_FAST_f32(q[1], q[2], q[3])}

(***************************************************************************)
(* Fractal variants of 3D value noise.  The loop state is the running sum, *)
(* the amplitude, the point to sample next and the points sampled so far.  *)
(***************************************************************************)
\* The loop condition i < octaves.
\* (Mutant: one iteration more.)
Continues_Inclusive(i, octaves) == i <= octaves
Continues(i, octaves) == i < octaves

\* What one octave adds before the amplitude: the sample, its magnitude, or the
\* squared distance of its magnitude from the ridge offset.
Term(kind, n, offset) ==
    IF kind = "fbm" THEN n
    ELSE IF kind = "turbulence" THEN RE_FABS_f32(n)
    ELSE LET d == FSub(offset, RE_FABS_f32(n)) IN FMul(d, d)

\* One iteration with sample n.
\* (Mutant: the amplitude is not updated.)
FractalStep_FixedAmp(kind, st, n, lac, gain, offset) ==
    [sum |-> FAdd(st.sum, FMul(Term(kind, n, offset), st.amp)),
     amp |-> st.amp,
     at |-> << FMul(st.at[1], lac), FMul(st.at[2], lac), FMul(st.at[3], lac) >>,
     samples |-> Append(st.samples, st.at)]
FractalStep(kind, st, n, lac, gain, offset) ==
    [sum |-> FAdd(st.sum, FMul(Term(kind, n, offset), st.amp)),
     amp |-> FMul(st.amp, gain),
     at |-> << FMul(st.at[1], lac), FMul(st.at[2], lac), FMul(st.at[3], lac) >>,
     samples |-> Append(st.samples, st.at)]

RECURSIVE FractalLoop(_, _, _, _, _, _, _)
FractalLoop(kind, i, octaves, st, lac, gain, offset) ==
    IF Continues(i, octaves)
    THEN UNION {FractalLoop(kind, i + 1, octaves, FractalStep(kind, st, n, lac, gain, offset),
                            lac, gain, offset) :
                   n \in RE_NOISE_VALUE3_f32(st.at[1], st.at[2], st.at[3])}
    ELSE {<< st.sum, st.samples >>}

\* Each returns the pairs << return value, points sampled in order >> of its runs.
RE_NOISE_VALUE3_FBM_f32(x, y, z, octaves, lac, gain) ==
    FractalLoop("fbm", 0, octaves,
                [sum |-> FZero, amp |-> I2F(1), at |-> << x, y, z >>, samples |-> << >>],
                lac, gain, FZero)

RE_NOISE_VALUE3_TURBULENCE_f32(x, y, z, octaves, lac, gain) ==
    FractalLoop("turbulence", 0, octaves,
                [sum |-> FZero, amp |-> I2F(1), at |-> << x, y, z >>, samples |-> << >>],
                lac, gain, FZero)

RE_NOISE_VALUE3_RIDGED_f32(x, y, z, oct, lac, gain, offset) ==
    FractalLoop("ridged", 0, oct,
                [sum |-> FZero, amp |-> FOfRatio(1, 1), at |-> << x, y, z >>, samples |-> << >>],
                lac, gain, offset)

(***************************************************************************)
(* Hash mode 2 with several threads.  A thread inside RE_HASH3D is at one  *)
(* of: "idle" (before the test of line 139), "init" (before the test of    *)
(* line 116), "flag" (before line 117), "fill" (before the loop of lines   *)
(* 120-121), "shuffle_hi" and "shuffle_lo" (before the upper and the lower *)
(* half of the iterations of the shuffle loop), "dup" (before the loop of  *)
(* lines 133-134), "read" and "read_built" (before the table reads, the    *)
(* initialisation skipped or run), "done".  Each step reads and writes the *)
(* globals as they are when it runs.                                       *)
(***************************************************************************)
Building == {"fill", "shuffle_hi", "shuffle_lo", "dup"}

\* One step of RE_HASH3D / RE_NOISE_INIT_1024 before the table reads.
\* (Mutant: the flag is set once the table is complete.)
InitStep_FlagLast(pc, inited, table) ==
    IF pc = "idle" THEN [pc |-> IF inited THEN "read" ELSE "init", inited |-> inited, table |-> table]
    ELSE IF pc = "init" THEN [pc |-> IF inited THEN "read" ELSE "flag", inited |-> inited, table |-> table]
    ELSE IF pc = "flag" THEN [pc |-> "fill", inited |-> inited, table |-> table]
    ELSE IF pc = "fill" THEN [pc |-> "shuffle_hi", inited |-> inited, table |-> FillTable(table)]
    ELSE IF pc = "shuffle_hi"
    THEN [pc |-> "shuffle_lo", inited |-> inited,
          table |-> ShuffleRange(table, RE_NOISE_TABLE_SIZE - 1, RE_NOISE_TABLE_SIZE \div 2)]
    ELSE IF pc = "shuffle_lo"
    THEN [pc |-> "dup", inited |-> inited,
          table |-> ShuffleRange(table, (RE_NOISE_TABLE_SIZE \div 2) - 1, 1)]
    ELSE [pc |-> "read_built", inited |-> TRUE, table |-> DuplicateTable(table)]
InitStep(pc, inited, table) ==
    IF pc = "idle" THEN [pc |-> IF inited THEN "read" ELSE "init", inited |-> inited, table |-> table]
    ELSE IF pc = "init" THEN [pc |-> IF inited THEN "read" ELSE "flag", inited |-> inited, table |-> table]
    ELSE IF pc = "flag" THEN [pc |-> "fill", inited |-> TRUE, table |-> table]
    ELSE IF pc = "fill" THEN [pc |-> "shuffle_hi", inited |-> inited, table |-> FillTable(table)]
    ELSE IF pc = "shuffle_hi"
    THEN [pc |-> "shuffle_lo", inited |-> inited,
          table |-> ShuffleRange(table, RE_NOISE_TABLE_SIZE - 1, RE_NOISE_TABLE_SIZE \div 2)]
    ELSE IF pc = "shuffle_lo"
    THEN [pc |-> "dup", inited |-> inited,
          table |-> ShuffleRange(table, (RE_NOISE_TABLE_SIZE \div 2) - 1, 1)]
    ELSE [pc |-> "read_built", inited |-> inited, table |-> DuplicateTable(table)]

(***************************************************************************)
(* re_color.h: hex packing.  An RE_COLORRGBA8 is [r, g, b, a], each an     *)
(* RE_u8; an RE_COLORHEX is its RE_u32 value.                              *)
(***************************************************************************)
\* Bitwise or of two n-bit naturals.
RECURSIVE OrN(_, _, _)
OrN(a, b, n) ==
    IF n = 0 THEN 0
    ELSE (IF a % 2 = 1 \/ b % 2 = 1 THEN 1 ELSE 0) + 2 * OrN(a \div 2, b \div 2, n - 1)

OrU32(a, b) == << OrN(a[1], b[1], 16), OrN(a[2], b[2], 16) >>

\* x << k and x >> k on a 32-bit word, 0 <= k < 32.
RECURSIVE ShlU32(_, _)
ShlU32(x, k) ==
    IF k >= 16 THEN ShlU32(<< x[2], 0 >>, k - 16)
    ELSE << (x[1] * 2^k + ((x[2] * 2^k) \div K16)) % K16, (x[2] * 2^k) % K16 >>

RECURSIVE ShrU32(_, _)
ShrU32(x, k) ==
    IF k >= 16 THEN ShrU32(<< 0, x[1] >>, k - 16)
    ELSE << x[1] \div 2^k, (x[1] % 2^k) * 2^(16 - k) + (x[2] \div 2^k) >>

\* (RE_u32)c of an RE_u8 c.
U32OfU8(c) == << 0, c >>

\* (RE_u8)(v & 0xFF)
LowByte(v) == AndMask(v, K8)

RE_COLOR_TO_HEX(c) ==
    OrU32(OrU32(OrU32(ShlU32(U32OfU8(c.a), 24), ShlU32(U32OfU8(c.r), 16)),
                ShlU32(U32OfU8(c.g), 8)),
          U32OfU8(c.b))

\* (Mutant: the channels read in the order blue, green, red.)
RE_COLOR_FROM_HEX_Bgr(h) ==
    [r |-> LowByte(h), g |-> LowByte(ShrU32(h, 8)), b |-> LowByte(ShrU32(h, 16)),
     a |-> LowByte(ShrU32(h, 24))]
RE_COLOR_FROM_HEX(h) ==
    [r |-> LowByte(ShrU32(h, 16)), g |-> LowByte(ShrU32(h, 8)), b |-> LowByte(h),
     a |-> LowByte(ShrU32(h, 24))]

(***************************************************************************)
(* re_core.h: branchless min, max and clamp on RE_i32.  The subtraction    *)
(* and the final addition are signed: where the exact result does not fit  *)
(* the behaviour is undefined, and the builds of this code (gcc -O0..-O3)  *)
(* all keep the low 32 bits, which is the outcome modelled.                *)
(***************************************************************************)
\* The RE_i32 with a given bit pattern.
I32OfU32(w) == IF w[1] >= 32768 THEN (w[1] - K16) * K16 + w[2] ELSE w[1] * K16 + w[2]

\* a - b modulo 2^32.
SubU32(a, b) ==
    LET lo == a[2] - b[2]
        hi == a[1] - b[1] - (IF lo < 0 THEN 1 ELSE 0)
    IN  << hi % K16, lo % K16 >>

\* diff & mask, mask = diff >> 31 (arithmetic): diff when its sign bit is set, else 0.
AndSignMask(diff) == IF diff[1] >= 32768 THEN diff ELSE << 0, 0 >>

RE_MIN_I32(a, b) ==
    LET diff == SubU32(U32OfI32(a), U32OfI32(b))
    IN  I32OfU32(AddU32(U32OfI32(b), AndSignMask(diff)))

RE_MAX_I32(a, b) ==
    LET diff == SubU32(U32OfI32(a), U32OfI32(b))
    IN  I32OfU32(SubU32(U32OfI32(a), AndSignMask(diff)))

RE_CLAMP_I32(x, lo, hi) == RE_MIN_I32(RE_MAX_I32(x, lo), hi)

(***************************************************************************)
(* re_core.h: the xorshift32 generator.  An RE_RNG32 is its state word.    *)
(***************************************************************************)
\* (Mutant: the seed stored as given, zero included.)
RE_RNG32_SEED_Raw(seed) == seed
RE_RNG32_SEED(seed) == IF seed /= << 0, 0 >> THEN seed ELSE << 0, 1 >>

\* The state after one RE_RNG32_NEXT_u32, which is also the value returned.
RE_RNG32_NEXT_u32(state) ==
    LET x1 == XorU32(state, ShlU32(state, 13))
        x2 == XorU32(x1, ShrU32(x1, 17))
    IN  XorU32(x2, ShlU32(x2, 5))

(***************************************************************************)
(* re_random.h: the PCG32 generator.  An RE_u64 is four 16-bit limbs, most *)
(* significant first; an RE_RANDOM_STATE is [state, inc].                  *)
(***************************************************************************)
\* The limb of weight 2^(16 i) of an RE_u64.
Limb(x, i) == x[4 - i]

AddU64(a, b) ==
    LET s0 == Limb(a, 0) + Limb(b, 0)
        s1 == Limb(a, 1) + Limb(b, 1) + (s0 \div K16)
        s2 == Limb(a, 2) + Limb(b, 2) + (s1 \div K16)
        s3 == Limb(a, 3) + Limb(b, 3) + (s2 \div K16)
    IN  << s3 % K16, s2 % K16, s1 % K16, s0 % K16 >>

\* a * b modulo 2^64, by columns of 16-bit partial products.
MulU64(a, b) ==
    LET P(i, j) == Mul16(Limb(a, i), Limb(b, j))
        s0 == P(0, 0)[2]
        s1 == P(0, 0)[1] + P(0, 1)[2] + P(1, 0)[2]
        s2 == P(0, 1)[1] + P(1, 0)[1] + P(0, 2)[2] + P(1, 1)[2] + P(2, 0)[2] + (s1 \div K16)
        s3 == P(0, 2)[1] + P(1, 1)[1] + P(2, 0)[1]
              + P(0, 3)[2] + P(1, 2)[2] + P(2, 1)[2] + P(3, 0)[2] + (s2 \div K16)
    IN  << s3 % K16, s2 % K16, s1 % K16, s0 >>

\* x >> k and x << k on an RE_u64, 0 <= k < 64.
RECURSIVE ShrU64(_, _)
ShrU64(x, k) ==
    IF k >= 16 THEN ShrU64(<< 0, x[1], x[2], x[3] >>, k - 16)
    ELSE [i \in 1..4 |-> (IF i = 1 THEN 0 ELSE (x[i - 1] % 2^k) * 2^(16 - k)) + (x[i] \div 2^k)]

RECURSIVE ShlU64(_, _)
ShlU64(x, k) ==
    IF k >= 16 THEN ShlU64(<< x[2], x[3], x[4], 0 >>, k - 16)
    ELSE [i \in 1..4 |-> ((x[i] * 2^k) % K16) + (IF i = 4 THEN 0 ELSE (x[i + 1] * 2^k) \div K16)]

XorU64(a, b) == [i \in 1..4 |-> XorN(a[i], b[i], 16)]

\* x | 1
OrOneU64(x) == [x EXCEPT ![4] = OrN(@, 1, 16)]

\* (RE_u32)x of an RE_u64 x.
U32OfU64(x) == << x[3], x[4] >>

\* 6364136223846793005 = 0x5851F42D4C957F2D
PCG_MULT == << 22609, 62509, 19605, 32557 >>

\* One RE_RANDOM_U32: the generator after the call and the value returned.
RE_RANDOM_U32(rng) ==
    LET old      == rng.state
        xorshift == U32OfU64(ShrU64(XorU64(ShrU64(old, 18), old), 27))
        rot      == ShrU64(old, 59)[4]
    IN  [rng |-> [state |-> AddU64(MulU64(old, PCG_MULT), OrOneU64(rng.inc)),
                  inc |-> rng.inc],
         ret |-> OrU32(ShrU32(xorshift, rot), ShlU32(xorshift, (32 - rot) % 32))]

\* (Mutant: the sequence number shifted, its low bit left clear.)
RE_RANDOM_SEED_EvenInc(seed, seq) ==
    LET s0 == [state |-> << 0, 0, 0, 0 >>, inc |-> ShlU64(seq, 1)]
        s1 == RE_RANDOM_U32(s0).rng
        s2 == [s1 EXCEPT !.state = AddU64(@, seed)]
    IN  RE_RANDOM_U32(s2).rng
RE_RANDOM_SEED(seed, seq) ==
    LET s0 == [state |-> << 0, 0, 0, 0 >>, inc |-> OrOneU64(ShlU64(seq, 1))]
        s1 == RE_RANDOM_U32(s0).rng
        s2 == [s1 EXCEPT !.state = AddU64(@, seed)]
    IN  RE_RANDOM_U32(s2).rng

\* a <= b on RE_u32 values.
LeU32(a, b) == a[1] < b[1] \/ (a[1] = b[1] /\ a[2] <= b[2])

\* r % n on RE_u32 values, n /= 0: long division, bit by bit from the top.
RECURSIVE RemBits(_, _, _, _)
RemBits(r, n, rem, i) ==
    IF i < 0 THEN rem
    ELSE LET bit == ShrU32(r, i)[2] % 2
             t   == AddU32(ShlU32(rem, 1), << 0, bit >>)
         IN  RemBits(r, n, IF rem[1] >= 32768 \/ LeU32(n, t) THEN SubU32(t, n) ELSE t, i - 1)
RemU32(r, n) == RemBits(r, n, << 0, 0 >>, 31)

\* RE_RANDOM_RANGE_U32: the generator after the call and the outcomes of
\* min + (r % (max - min + 1)).  When max - min + 1 wraps to 0 the remainder
\* is undefined: the division traps (x86) or leaves r as the remainder (ARM).
RE_RANDOM_RANGE_U32(rng, min, max) ==
    LET d == RE_RANDOM_U32(rng)
        n == AddU32(SubU32(max, min), << 0, 1 >>)
    IN  IF n = << 0, 0 >>
        THEN { [rng |-> d.rng, trapped |-> TRUE, ret |-> << 0, 0 >>],
               [rng |-> d.rng, trapped |-> FALSE, ret |-> AddU32(min, d.ret)] }
        ELSE { [rng |-> d.rng, trapped |-> FALSE, ret |-> AddU32(min, RemU32(d.ret, n))] }

(***************************************************************************)
(* re_mat4.h: the 4x4 inverse.  A matrix is its 16 elements m[0..15],      *)
(* column-major, at positions 1..16.  The RE_f64 side is on the doubles    *)
(* with at most 24 significant bits.                                       *)
(***************************************************************************)
\* The six terms of inv[k], k = 0..15, as the source writes them: the sign and the
\* three indices into A.
M4_INVERSE_TERMS == <<
    << << 1, 5, 10, 15 >>, << -1, 5, 14, 11 >>, << -1, 9, 6, 15 >>, << 1, 9, 14, 7 >>, << 1, 13, 6, 11 >>, << -1, 13, 10, 7 >> >>,
    << << -1, 1, 10, 15 >>, << 1, 1, 14, 11 >>, << 1, 9, 2, 15 >>, << -1, 9, 14, 3 >>, << -1, 13, 2, 11 >>, << 1, 13, 10, 3 >> >>,
    << << 1, 1, 6, 15 >>, << -1, 1, 14, 7 >>, << -1, 5, 2, 15 >>, << 1, 5, 14, 3 >>, << 1, 13, 2, 7 >>, << -1, 13, 6, 3 >> >>,
    << << -1, 1, 6, 11 >>, << 1, 1, 10, 7 >>, << 1, 5, 2, 11 >>, << -1, 5, 10, 3 >>, << -1, 9, 2, 7 >>, << 1, 9, 6, 3 >> >>,
    << << -1, 4, 10, 15 >>, << 1, 4, 14, 11 >>, << 1, 8, 6, 15 >>, << -1, 8, 14, 7 >>, << -1, 12, 6, 11 >>, << 1, 12, 10, 7 >> >>,
    << << 1, 0, 10, 15 >>, << -1, 0, 14, 11 >>, << -1, 8, 2, 15 >>, << 1, 8, 14, 3 >>, << 1, 12, 2, 11 >>, << -1, 12, 10, 3 >> >>,
    << << -1, 0, 6, 15 >>, << 1, 0, 14, 7 >>, << 1, 4, 2, 15 >>, << -1, 4, 14, 3 >>, << -1, 12, 2, 7 >>, << 1, 12, 6, 3 >> >>,
    << << 1, 0, 6, 11 >>, << -1, 0, 10, 7 >>, << -1, 4, 2, 11 >>, << 1, 4, 10, 3 >>, << 1, 8, 2, 7 >>, << -1, 8, 6, 3 >> >>,
    << << 1, 4, 9, 15 >>, << -1, 4, 13, 11 >>, << -1, 8, 5, 15 >>, << 1, 8, 13, 7 >>, << 1, 12, 5, 11 >>, << -1, 12, 9, 7 >> >>,
    << << -1, 0, 9, 15 >>, << 1, 0, 13, 11 >>, << 1, 8, 1, 15 >>, << -1, 8, 13, 3 >>, << -1, 12, 1, 11 >>, << 1, 12, 9, 3 >> >>,
    << << 1, 0, 5, 15 >>, << -1, 0, 13, 7 >>, << -1, 4, 1, 15 >>, << 1, 4, 13, 3 >>, << 1, 12, 1, 7 >>, << -1, 12, 5, 3 >> >>,
    << << -1, 0, 5, 11 >>, << 1, 0, 9, 7 >>, << 1, 4, 1, 11 >>, << -1, 4, 9, 3 >>, << -1, 8, 1, 7 >>, << 1, 8, 5, 3 >> >>,
    << << -1, 4, 9, 14 >>, << 1, 4, 13, 10 >>, << 1, 8, 5, 14 >>, << -1, 8, 13, 6 >>, << -1, 12, 5, 10 >>, << 1, 12, 9, 6 >> >>,
    << << 1, 0, 9, 14 >>, << -1, 0, 13, 10 >>, << -1, 8, 1, 14 >>, << 1, 8, 13, 2 >>, << 1, 12, 1, 10 >>, << -1, 12, 9, 2 >> >>,
    << << -1, 0, 5, 14 >>, << 1, 0, 13, 6 >>, << 1, 4, 1, 14 >>, << -1, 4, 13, 2 >>, << -1, 12, 1, 6 >>, << 1, 12, 5, 2 >> >>,
    << << 1, 0, 5, 10 >>, << -1, 0, 9, 6 >>, << -1, 4, 1, 10 >>, << 1, 4, 9, 2 >>, << 1, 8, 1, 6 >>, << -1, 8, 5, 2 >> >> >>

\* A[a]*A[b]*A[c]; a leading minus negates the first factor.
Term3(A, t, leading) ==
    FMul(FMul(IF leading /\ t[1] < 0 THEN FNeg(A[t[2] + 1]) ELSE A[t[2] + 1], A[t[3] + 1]),
         A[t[4] + 1])

RECURSIVE SumTerms(_, _, _)
SumTerms(A, ts, n) ==
    IF n = 1 THEN Term3(A, ts[1], TRUE)
    ELSE IF ts[n][1] < 0 THEN FSub(SumTerms(A, ts, n - 1), Term3(A, ts[n], FALSE))
    ELSE FAdd(SumTerms(A, ts, n - 1), Term3(A, ts[n], FALSE))

\* The contents of an out matrix that was never written.
Unwritten == << >>

\* From det to the end, shared by both inverses: << the int returned, *out >>.
M4InverseFrom(A, inv) ==
    LET det == FAdd(FAdd(FAdd(FMul(A[1], inv[1]), FMul(A[2], inv[5])), FMul(A[3], inv[9])),
                    FMul(A[4], inv[13]))
    IN  IF FEq(det, FZero) THEN << 0, Unwritten >>
        ELSE << 1, [k \in 1..16 |-> FMul(inv[k], FDiv(I2F(1), det))] >>

RE_M4F32_INVERSE(m) ==
    M4InverseFrom(m, [k \in 1..16 |-> SumTerms(m, M4_INVERSE_TERMS[k], 6)])

\* What the 16 doubles of the unassigned local inv can hold: zeros, ones, or an
\* identity matrix left on the stack.
M4Of(ints) == [k \in 1..16 |-> I2F(ints[k])]
Leftovers ==
    { M4Of([k \in 1..16 |-> 0]), M4Of([k \in 1..16 |-> 1]),
      M4Of([k \in 1..16 |-> IF k \in {1, 6, 11, 16} THEN 1 ELSE 0]) }

\* RE_M4F64_INVERSE: inv is declared and read, never assigned; one outcome for each
\* content of it.
RE_M4F64_INVERSE(m) == {M4InverseFrom(m, inv) : inv \in Leftovers}

\* RE_M4F32_MULTIPLY: R = A * B.
RE_M4F32_MULTIPLY(A, B) ==
    [k \in 1..16 |->
        LET c == (k - 1) \div 4
            r == (k - 1) % 4
        IN  FAdd(FAdd(FAdd(FMul(A[r + 1], B[c * 4 + 1]), FMul(A[r + 5], B[c * 4 + 2])),
                      FMul(A[r + 9], B[c * 4 + 3])),
                 FMul(A[r + 13], B[c * 4 + 4]))]

RE_M4F32_IDENTITY == M4Of([k \in 1..16 |-> IF k \in {1, 6, 11, 16} THEN 1 ELSE 0])

\* All the state, and the part of it that is the library's globals.
vars == << mode, RE_NOISE_TABLE_INITED, RE_NOISE_PERM_1024, call, mem, log >>
globals == << mode, RE_NOISE_TABLE_INITED, RE_NOISE_PERM_1024 >>

\* A call: the function, its arguments, what it returned, the table indices it
\* read and the size of that table, and whether it ran the lazy initialisation.
NoCall == [op |-> "none", args |-> << >>, ret |-> 0, reads |-> << >>, size |-> 0,
           built |-> FALSE]

\* Lattice coordinates the calls are made with: around the test's (10,20,30),
\* the same residues shifted by 256 and 1024, negative values and the int limits.
Near == 1
Xs == (10..(10 + Near)) \cup {I32Min, -246, -1, 266, 1034}
Ys == {-236, 20, I32Max}
YZs == {<< 20, 30 >>, << -236, I32Min >>, << I32Max, I32Max >>, << -236, 1054 >>}
Ws == {-1, I32Max}

\* The calls kept for comparison with later ones are those at these coordinates.
Probes == {<< x, 20, 30 >> : x \in 10..(10 + Near)} \cup {<< -246, -236, I32Min >>}

\* A table read outside the array is undefined behaviour: the call may return
\* any value of its return type.
InBounds(h) == \A k \in 1..Len(h.reads) : h.reads[k] \in 0..(h.size - 1)
Garbage == {0, 255, 65535}
Returned(h) == IF InBounds(h) THEN {h.ret} ELSE Garbage

\* The table of hash mode 2 exists only in a mode-2 build.
InitTable(m) == IF m = 2 THEN ZeroTable ELSE << >>

Remember ==
    IF call.args \in Probes /\ call.op \in {"RE_HASH3D", "RE_NOISE_HASH3"}
    THEN {mem, call} ELSE {mem}

Init ==
    /\ mode \in {1, 2}
    /\ RE_NOISE_TABLE_INITED = FALSE
    /\ RE_NOISE_PERM_1024 = InitTable(mode)
    /\ call = NoCall
    /\ mem = NoCall
    /\ log = {}

\* One RE_HASH3D call: the globals and the call record after it.
Hash3DStep(x, y, z) ==
    \E h \in {RE_HASH3D(mode, RE_NOISE_TABLE_INITED, RE_NOISE_PERM_1024, x, y, z)} :
        /\ RE_NOISE_TABLE_INITED' = h.inited
        /\ RE_NOISE_PERM_1024' = h.table
        /\ \E r \in Returned(h) :
              call' = [op |-> "RE_HASH3D", args |-> << x, y, z >>, ret |-> r,
                       reads |-> h.reads, size |-> h.size,
                       built |-> (h.inited /= RE_NOISE_TABLE_INITED)]
        /\ UNCHANGED mode

CallHash3D(x, y, z) ==
    /\ Hash3DStep(x, y, z)
    /\ mem' \in Remember
    /\ UNCHANGED log

CallHash3DToF32(x, y, z) ==
    \E h \in {RE_HASH3D(mode, RE_NOISE_TABLE_INITED, RE_NOISE_PERM_1024, x, y, z)} :
        /\ RE_NOISE_TABLE_INITED' = h.inited
        /\ RE_NOISE_PERM_1024' = h.table
        /\ \E r \in Returned(h) :
              call' = [op |-> "RE_HASH3D_to_f32", args |-> << x, y, z >>,
                       ret |-> RE_HASH3D_to_f32(r),
                       reads |-> h.reads, size |-> h.size,
                       built |-> (h.inited /= RE_NOISE_TABLE_INITED)]
        /\ mem' \in Remember
        /\ UNCHANGED << mode, log >>

\* A call of one of the hashes on the constant table RE_NOISE_PERM.
PermCall(name, a, hash) ==
    \E h \in {hash} :
        /\ \E r \in Returned(h) :
              call' = [op |-> name, args |-> a, ret |-> r,
                       reads |-> h.reads, size |-> h.size, built |-> FALSE]
        /\ mem' \in Remember
        /\ UNCHANGED << globals, log >>

CallNoiseHash(x)           == PermCall("RE_NOISE_HASH", << x >>, RE_NOISE_HASH(x))
CallNoiseHash2(x, y)       == PermCall("RE_NOISE_HASH2", << x, y >>, RE_NOISE_HASH2(x, y))
CallNoiseHash3(x, y, z)    == PermCall("RE_NOISE_HASH3", << x, y, z >>, RE_NOISE_HASH3(x, y, z))
CallNoiseHash4(x, y, z, w) ==
    PermCall("RE_NOISE_HASH4", << x, y, z, w >>, RE_NOISE_HASH4(x, y, z, w))

Next ==
    \/ \E x \in Xs, yz \in YZs : CallHash3D(x, yz[1], yz[2])
    \/ \E p \in Probes : CallHash3DToF32(p[1], p[2], p[3])
    \/ \E x \in Xs : CallNoiseHash(x)
    \/ \E x \in Xs, y \in Ys : CallNoiseHash2(x, y)
    \/ \E x \in Xs, yz \in YZs : CallNoiseHash3(x, yz[1], yz[2])
    \/ \E p \in Probes, w \in Ws : CallNoiseHash4(p[1], p[2], p[3], w)

Spec == Init /\ [][Next]_vars

(***************************************************************************)
(* Sweep: RE_HASH3D in hash mode 1 called for consecutive x at fixed y, z, *)
(* every result kept.                                                      *)
(***************************************************************************)
SweepLen == 258
SweepStarts == {-300, 10, 200}

InitSweep == Init /\ mode = 1

SweepHash3D ==
    /\ Cardinality(log) < SweepLen
    /\ \E x \in (IF call.op = "none" THEN SweepStarts ELSE {call.args[1] + 1}),
          yz \in (IF call.op = "none" THEN YZs ELSE {<< call.args[2], call.args[3] >>}) :
            Hash3DStep(x, yz[1], yz[2])
    /\ log' = log \cup {<< call'.args[1], call'.ret >>}
    /\ UNCHANGED mem

NextSweep == SweepHash3D

SpecSweep == InitSweep /\ [][NextSweep]_vars

(***************************************************************************)
(* The tableless hashes, called in any order with RE_HASH3D, which builds  *)
(* the table of hash mode 2.                                               *)
(***************************************************************************)
PcgOps == {"RE_HASH3D_PCG", "RE_OS3D_HASH", "RE_PCG_MIX32", "RE_PCG_MIX32_u32"}
PcgCoords == {<< 1, 2, 3 >>, << -1, I32Min, I32Max >>, << -5, 7, 100000 >>,
              << 0, 0, 0 >>, << I32Max, -1, I32Min >>, << 10, 20, 30 >>}
MixInputs == {<< 0, 0 >>, << 0, 1 >>, << 65535, 65535 >>, << 32768, 0 >>,
              << 4660, 22136 >>, << 1, 32768 >>}

RememberPcg == \E keep \in BOOLEAN : mem' = IF keep /\ call.op \in PcgOps THEN call ELSE mem

PcgCall(name, a, r) ==
    /\ call' = [op |-> name, args |-> a, ret |-> r, reads |-> << >>, size |-> 0,
                built |-> FALSE]
    /\ RememberPcg
    /\ UNCHANGED << globals, log >>

CallHash3DPcg(x, y, z) == PcgCall("RE_HASH3D_PCG", << x, y, z >>, RE_HASH3D_PCG(x, y, z))
CallOs3dHash(x, y, z)  == PcgCall("RE_OS3D_HASH", << x, y, z >>, RE_OS3D_HASH(x, y, z))
CallPcgMix32(x)        == PcgCall("RE_PCG_MIX32", << x >>, RE_PCG_MIX32(x))
CallPcgMix32U32(x)     == PcgCall("RE_PCG_MIX32_u32", << x >>, RE_PCG_MIX32_u32(x))

TableCall(x, y, z) ==
    /\ Hash3DStep(x, y, z)
    /\ RememberPcg
    /\ UNCHANGED log

NextPcg ==
    \/ \E p \in PcgCoords : CallHash3DPcg(p[1], p[2], p[3])
    \/ \E p \in PcgCoords : CallOs3dHash(p[1], p[2], p[3])
    \/ \E x \in MixInputs : CallPcgMix32(x)
    \/ \E x \in MixInputs : CallPcgMix32U32(x)
    \/ \E p \in Probes : TableCall(p[1], p[2], p[3])

SpecPcg == Init /\ [][NextPcg]_vars

(***************************************************************************)
(* Calls of RE_FASTFLOOR_f32 and RE_FASTFLOOR_f64.                         *)
(***************************************************************************)
FloorSpan == 24

Flt(s, m, e) == [s |-> s, m |-> m, e |-> e]

\* Quarters around zero, and values at and beyond the ends of RE_i32: 3e9,
\* 2^31, the float below 2^31, -2^31, the float below -2^31, the largest
\* finite float, the smallest subnormals, -0, 8388607.5.
FloorInputsF32 ==
    {FOfRatio(n, 2) : n \in (-FloorSpan)..FloorSpan} \cup
    { Flt(0, 11718750, 8), Flt(1, 11718750, 8), Flt(0, Pow2(23), 8), Flt(0, Pow2(24) - 1, 7),
      Flt(1, Pow2(23), 8), Flt(1, Pow2(23) + 1, 8), Flt(0, Pow2(24) - 1, 104),
      Flt(1, Pow2(24) - 1, 104), Flt(0, Pow2(23), -172), Flt(1, Pow2(23), -172),
      Flt(1, 0, 0), Flt(0, Pow2(24) - 1, -1), Flt(1, Pow2(24) - 1, -1) }

\* Halves around zero, and values at and beyond the ends of RE_i64: 2^63, the
\* value below it, -2^63, the value below that, 2^64, -2^64, 3e9, -3e9.
FloorInputsF64 ==
    {FOfRatio(n, 1) : n \in (-FloorSpan)..FloorSpan} \cup
    { Flt(0, Pow2(23), 40), Flt(0, Pow2(24) - 1, 39), Flt(1, Pow2(23), 40),
      Flt(1, Pow2(23) + 1, 40), Flt(0, Pow2(23), 41), Flt(1, Pow2(23), 41),
      Flt(0, 11718750, 8), Flt(1, 11718750, 8), Flt(1, Pow2(23), -172) }

\* A call of a function of the float side: no table is read, no global written.
FloatCall(name, a, r) ==
    /\ call' = [op |-> name, args |-> a, ret |-> r, reads |-> << >>, size |-> 0,
                built |-> FALSE]
    /\ UNCHANGED << globals, log >>

CallFastFloorF32(x) ==
    /\ \E r \in RE_FASTFLOOR_f32(x) : FloatCall("RE_FASTFLOOR_f32", << x >>, r)
    /\ UNCHANGED mem

CallFastFloorF64(x) ==
    /\ \E r \in RE_FASTFLOOR_f64(x) : FloatCall("RE_FASTFLOOR_f64", << x >>, r)
    /\ UNCHANGED mem

InitFloat == Init /\ mode = 1

NextFloor ==
    \/ \E x \in FloorInputsF32 : CallFastFloorF32(x)
    \/ \E x \in FloorInputsF64 : CallFastFloorF64(x)

SpecFloor == InitFloat /\ [][NextFloor]_vars

(***************************************************************************)
(* Calls of RE_NOISE_FADE_f32 on [0, 1], an earlier call kept.             *)
(***************************************************************************)
FadeWindow == 3

\* Sixteenths of [0, 1], and consecutive floats from 0.99535805 = 16699337 / 2^24.
FadeInputs ==
    {FOfRatio(n, 4) : n \in 0..16} \cup
    {FOfRatio(16699337 + i, 24) : i \in 0..FadeWindow}

CallFade(t) ==
    /\ FloatCall("RE_NOISE_FADE_f32", << t >>, RE_NOISE_FADE_f32(t))
    /\ \E keep \in BOOLEAN : mem' = IF keep /\ call.op = "RE_NOISE_FADE_f32" THEN call ELSE mem

NextFade == \E t \in FadeInputs : CallFade(t)

SpecFade == InitFloat /\ [][NextFade]_vars

(***************************************************************************)
(* Calls of the value noise.                                               *)
(***************************************************************************)
ValueSpan == 3

\* Points with every coordinate a multiple of one half.
Halves == {FOfRatio(n, 1) : n \in (-ValueSpan)..ValueSpan}
Halves3 == {FOfRatio(n, 1) : n \in {-3, 0, 1, 4}}
Halves4 == {FOfRatio(n, 1) : n \in {2, 3}} \X {FOfRatio(n, 1) : n \in {-1, 0}}
             \X {FOfRatio(n, 1) : n \in {0, 9}} \X {FOfRatio(n, 1) : n \in {-4, 5}}

\* (-149.002441, -919.004578), (-516.001465, -947.000977),
\* (-904.000427, 487.998901), (396.997559, 313.998901).
Points2 ==
    { << Flt(1, 9765024, -16), Flt(1, 15056971, -14) >>,
      << Flt(1, 8454168, -14), Flt(1, 15515664, -14) >>,
      << Flt(1, 14811143, -14), Flt(0, 15990748, -15) >>,
      << Flt(0, 13008816, -15), Flt(0, 10289116, -15) >> }

CallValue2(x, y) ==
    /\ \E r \in RE_NOISE_VALUE2_f32(x, y) : FloatCall("RE_NOISE_VALUE2_f32", << x, y >>, r)
    /\ UNCHANGED mem

CallValue3(x, y, z) ==
    /\ \E r \in RE_NOISE_VALUE3_f32(x, y, z) :
          FloatCall("RE_NOISE_VALUE3_f32", << x, y, z >>, r)
    /\ UNCHANGED mem

CallValue4(x, y, z, wv) ==
    /\ \E r \in RE_NOISE_VALUE4_f32(x, y, z, wv) :
          FloatCall("RE_NOISE_VALUE4_f32", << x, y, z, wv >>, r)
    /\ UNCHANGED mem

NextValue ==
    \/ \E x \in Halves, y \in Halves : CallValue2(x, y)
    \/ \E p \in Points2 : CallValue2(p[1], p[2])
    \/ \E x \in Halves3, y \in Halves3, z \in Halves3 : CallValue3(x, y, z)
    \/ \E p \in Halves4 : CallValue4(p[1], p[2], p[3], p[4])

SpecValue == InitFloat /\ [][NextValue]_vars

(***************************************************************************)
(* Calls of RE_NOISE_PERLIN3_f32: points of the half lattice, and walks    *)
(* along x in steps of 0.01f; the call before a step is kept.              *)
(***************************************************************************)
PerlinSpan == 1
EpsSteps == 8

\* 0.01f.
Eps == Flt(0, 10737418, -30)

PerlinHalves == {FOfRatio(n, 1) : n \in (-PerlinSpan)..PerlinSpan}

\* Where the walks start: 0.95 (towards 1), -0.03 (towards 0), 255.96 (towards
\* 256, where the cell index wraps), -1000.04, 11.4894257; with y and z.
WalkStarts ==
    { << Flt(0, 15938355, -24), Flt(0, 10066330, -25), Flt(0, 11744051, -24) >>,
      << Flt(1, 16106127, -29), Flt(0, 13170115, -22), Flt(0, 11366564, -22) >>,
      << Flt(0, 16774595, -16), I2F(1), I2F(1) >>,
      << Flt(1, 16384655, -14), FOfRatio(1, 1), FOfRatio(-5, 2) >>,
      << Flt(0, 12047536, -20), Flt(1, 8848863, -17), Flt(1, 10108073, -17) >> }

RECURSIVE WalkFrom(_, _)
WalkFrom(p, n) ==
    IF n = 0 THEN {p} ELSE {p} \cup WalkFrom(<< FAdd(p[1], Eps), p[2], p[3] >>, n - 1)

WalkPoints == UNION {WalkFrom(p, EpsSteps) : p \in WalkStarts}

PerlinPoints == (PerlinHalves \X PerlinHalves \X PerlinHalves) \cup WalkPoints

\* The previous call is kept when this call is one step of 0.01f further along x.
CallPerlin3(x, y, z) ==
    /\ \E r \in RE_NOISE_PERLIN3_f32(x, y, z) :
          FloatCall("RE_NOISE_PERLIN3_f32", << x, y, z >>, r)
    /\ mem' = IF /\ call.op = "RE_NOISE_PERLIN3_f32"
                 /\ << x, y, z >> = << FAdd(call.args[1], Eps), call.args[2], call.args[3] >>
              THEN call ELSE NoCall

NextPerlin == \E p \in PerlinPoints : CallPerlin3(p[1], p[2], p[3])

SpecPerlin == InitFloat /\ [][NextPerlin]_vars

(***************************************************************************)
(* Calls of the OpenSimplex 3D evaluators.  log holds the locals of the    *)
(* call and the order of its evaluations; mem the call before it when that *)
(* was a call of the tests.                                                *)
(***************************************************************************)
Os3dSpan == 2

\* Quarters around zero in x, with (y, z) pairs that tie with x, with each other or not
\* at all; the points of the tests; points far from the origin.
Os3dYZ == { << FZero, FZero >>, << FZero, FOfRatio(1, 2) >>, << FOfRatio(1, 2), FZero >>,
            << FOfRatio(1, 2), FOfRatio(3, 2) >>, << FOfRatio(-1, 1), FOfRatio(1, 2) >>,
            << FOfRatio(1, 1), FOfRatio(1, 1) >> }
Os3dTests == { << I2F(1), I2F(2), I2F(3) >>,
               << FOfRatio(1, 1), FOfRatio(1, 2), FOfRatio(3, 2) >>,
               << Flt(0, 10066330, -25), Flt(0, 11744051, -24), Flt(0, 15099494, -24) >> }
Os3dFar == { << Flt(0, 16389014, -14), Flt(1, 16389837, -13), Flt(0, 15802382, -7) >>,
             << I2F(1000), I2F(1000), I2F(-2000) >>,
             << Flt(0, 12800000, 0), Flt(0, 12800001, 0), Flt(1, 9600000, -2) >> }
Os3dPoints ==
    {<< FOfRatio(n, 2), yz[1], yz[2] >> : n \in (-Os3dSpan)..Os3dSpan, yz \in Os3dYZ}
        \cup Os3dTests \cup Os3dFar

RankedOps == {"RE_NOISE_OS3D_SMOOTH_f32", "RE_NOISE_OS3D_FAST_f32"}
Os3dOps == RankedOps \cup {"RE_NOISE_OPENSIMPLEX3D_FAST_f32"}

Os3dCall(name, p, h) ==
    /\ call' = [op |-> name, args |-> p, ret |-> h.ret, reads |-> << >>, size |-> 0,
                built |-> FALSE]
    /\ log' = h
    /\ mem' = IF call.op \in Os3dOps /\ call.args \in Os3dTests THEN call ELSE NoCall
    /\ UNCHANGED globals

CallOs3dSmooth(p) ==
    \E h \in RE_NOISE_OS3D_SMOOTH_f32(p[1], p[2], p[3]) : Os3dCall("RE_NOISE_OS3D_SMOOTH_f32", p, h)

CallOs3dFast(p) ==
    \E h \in RE_NOISE_OS3D_FAST_f32(p[1], p[2], p[3]) : Os3dCall("RE_NOISE_OS3D_FAST_f32", p, h)

CallOpenSimplex3dFast(p) ==
    \E h \in RE_NOISE_OPENSIMPLEX3D_FAST_f32(p[1], p[2], p[3]) :
        Os3dCall("RE_NOISE_OPENSIMPLEX3D_FAST_f32", p, h)

NextOs3d ==
    \/ \E p \in Os3dPoints : CallOs3dSmooth(p)
    \/ \E p \in Os3dPoints : CallOs3dFast(p)
    \/ \E p \in Os3dPoints : CallOpenSimplex3dFast(p)

SpecOs3d == InitFloat /\ [][NextOs3d]_vars

(***************************************************************************)
(* Calls of the fractal variants.  log holds the points the call sampled,  *)
(* in order.                                                               *)
(***************************************************************************)
MaxOctaves == 4

\* The points of the tests, a point between lattice points, a negative one.
FractalPoints == { << I2F(1), I2F(2), I2F(3) >>, << I2F(1), I2F(1), I2F(1) >>,
                   << FOfRatio(1, 1), FOfRatio(3, 1), FZero >>,
                   << FOfRatio(-3, 1), FOfRatio(1, 1), I2F(2) >> }

\* (lacunarity, gain): the pair of the tests, negative gains, a gain above 1, a
\* lacunarity below 1.
LacGains == { << I2F(2), FOfRatio(1, 1) >>, << I2F(2), I2F(-1) >>, << I2F(2), I2F(-2) >>,
              << I2F(3), FOfRatio(-1, 1) >>, << FOfRatio(1, 1), I2F(2) >> }

FractalArgs ==
    {<< p[1], p[2], p[3], n, lg[1], lg[2] >> :
        p \in FractalPoints, n \in (-1)..MaxOctaves, lg \in LacGains}

FractalOps == {"RE_NOISE_VALUE3_FBM_f32", "RE_NOISE_VALUE3_TURBULENCE_f32",
               "RE_NOISE_VALUE3_RIDGED_f32"}

FractalCall(name, a, h) ==
    /\ call' = [op |-> name, args |-> a, ret |-> h[1], reads |-> << >>, size |-> 0,
                built |-> FALSE]
    /\ log' = h[2]
    /\ UNCHANGED << globals, mem >>

CallFbm(a) ==
    \E h \in RE_NOISE_VALUE3_FBM_f32(a[1], a[2], a[3], a[4], a[5], a[6]) :
        FractalCall("RE_NOISE_VALUE3_FBM_f32", a, h)

CallTurbulence(a) ==
    \E h \in RE_NOISE_VALUE3_TURBULENCE_f32(a[1], a[2], a[3], a[4], a[5], a[6]) :
        FractalCall("RE_NOISE_VALUE3_TURBULENCE_f32", a, h)

\* The ridge offset of the tests is 1.
CallRidged(a) ==
    \E h \in RE_NOISE_VALUE3_RIDGED_f32(a[1], a[2], a[3], a[4], a[5], a[6], I2F(1)) :
        FractalCall("RE_NOISE_VALUE3_RIDGED_f32", a, h)

NextFractal ==
    \/ \E a \in FractalArgs : CallFbm(a)
    \/ \E a \in FractalArgs : CallTurbulence(a)
    \/ \E a \in FractalArgs : CallRidged(a)

SpecFractal == InitFloat /\ [][NextFractal]_vars

(***************************************************************************)
(* Hash mode 2, one thread: calls of RE_HASH3D and of RE_NOISE_INIT_1024.  *)
(***************************************************************************)
CallInit1024 ==
    \E st \in {RE_NOISE_INIT_1024(RE_NOISE_TABLE_INITED, RE_NOISE_PERM_1024)} :
        /\ RE_NOISE_TABLE_INITED' = st.inited
        /\ RE_NOISE_PERM_1024' = st.table
        /\ call' = [op |-> "RE_NOISE_INIT_1024", args |-> << >>, ret |-> 0, reads |-> << >>,
                    size |-> 0, built |-> (st.inited /= RE_NOISE_TABLE_INITED)]
        /\ UNCHANGED << mode, mem, log >>

InitMode2 == Init /\ mode = 2

NextMode2 ==
    \/ \E x \in Xs, yz \in YZs : CallHash3D(x, yz[1], yz[2])
    \/ CallInit1024

SpecMode2 == InitMode2 /\ [][NextMode2]_vars

(***************************************************************************)
(* Hash mode 2: threads that each call RE_HASH3D once, their steps         *)
(* interleaved.  log maps each thread to where it is; call is the call     *)
(* that returned last.                                                     *)
(***************************************************************************)
Threads == {"A", "B", "C"}

\* The coordinates each thread calls RE_HASH3D with.
RaceArgs == [t \in Threads |-> IF t = "C" THEN << 11, 20, 30 >> ELSE << 10, 20, 30 >>]

InitRace ==
    /\ mode = 2
    /\ RE_NOISE_TABLE_INITED = FALSE
    /\ RE_NOISE_PERM_1024 = ZeroTable
    /\ call = NoCall
    /\ mem = NoCall
    /\ log = [t \in Threads |-> "idle"]

\* Thread t takes its next step of the lazy initialisation.
RaceInitStep(t) ==
    /\ log[t] \in {"idle", "init", "flag"} \cup Building
    /\ \E st \in {InitStep(log[t], RE_NOISE_TABLE_INITED, RE_NOISE_PERM_1024)} :
          /\ log' = [log EXCEPT ![t] = st.pc]
          /\ RE_NOISE_TABLE_INITED' = st.inited
          /\ RE_NOISE_PERM_1024' = st.table
    /\ UNCHANGED << mode, call, mem >>

\* Thread t reads the table as it is now and returns.
RaceRead(t) ==
    /\ log[t] \in {"read", "read_built"}
    /\ \E h \in {RE_HASH3D_1024(RE_NOISE_PERM_1024, RaceArgs[t][1], RaceArgs[t][2], RaceArgs[t][3])} :
          \E r \in Returned(h) :
              call' = [op |-> "RE_HASH3D", args |-> RaceArgs[t], ret |-> r, reads |-> h.reads,
                       size |-> h.size, built |-> (log[t] = "read_built")]
    /\ log' = [log EXCEPT ![t] = "done"]
    /\ UNCHANGED << globals, mem >>

NextRace ==
    \/ \E t \in Threads : RaceInitStep(t)
    \/ \E t \in Threads : RaceRead(t)

SpecRace == InitRace /\ [][NextRace]_vars

(***************************************************************************)
(* Evaluators run by several threads beside a thread that calls RE_HASH3D. *)
(* log maps each thread to its position and its locals: an evaluator       *)
(* thread is between calls ("idle") or inside one ("run"), before          *)
(* iteration `at` of the loop of the function it runs; the hashing thread  *)
(* is at one of the positions of the lazy initialisation.  call is the     *)
(* evaluator call that returned last, mem the one before it when that was  *)
(* the same call.                                                          *)
(***************************************************************************)
Evaluators == {"E1", "E2"}
Hasher == "H"

PureOctaves == 2

\* The calls the evaluator threads make: at the point (0.5, 0.25, 0.75) of the tests,
\* at (1, 2, 3) with lacunarity 2 and gain 0.5, and at (-0.5, 0, 0.25), where
\* RE_NOISE_OS3D_SMOOTH_f32 is not zero.
PureCalls ==
    { << "RE_NOISE_VALUE3_f32", << FOfRatio(1, 1), FOfRatio(1, 2), FOfRatio(3, 2) >> >>,
      << "RE_NOISE_PERLIN3_f32", << FOfRatio(1, 1), FOfRatio(1, 2), FOfRatio(3, 2) >> >>,
      << "RE_NOISE_VALUE3_FBM_f32",
         << I2F(1), I2F(2), I2F(3), PureOctaves, I2F(2), FOfRatio(1, 1) >> >>,
      << "RE_NOISE_OS3D_SMOOTH_f32", << FOfRatio(-1, 1), FZero, FOfRatio(1, 2) >> >> }

PureOps == {c[1] : c \in PureCalls}

Idle == [pc |-> "idle", acc |-> << >>, at |-> 0, op |-> "none", args |-> << >>, frame |-> << >>]

\* The evaluators that run a loop, and the calls of them and of the others.
LoopOps == {"RE_NOISE_VALUE3_FBM_f32", "RE_NOISE_OS3D_SMOOTH_f32"}
LoopCalls == {c \in PureCalls : c[1] \in LoopOps}
WholeCalls == PureCalls \ LoopCalls

\* The locals of a call of op with arguments a when its loop begins.
Started(op, a) ==
    IF op = "RE_NOISE_VALUE3_FBM_f32"
    THEN {[pc |-> "run",
           acc |-> [sum |-> FZero, amp |-> I2F(1), at |-> << a[1], a[2], a[3] >>,
                    samples |-> << >>],
           at |-> 0, op |-> op, args |-> a, frame |-> << >>]}
    ELSE {[pc |-> "run",
           acc |-> [value |-> FZero, order |-> << >>, corners |-> << >>],
           at |-> 0, op |-> op, args |-> a, frame |-> << f.cell, f.offs, f.ranks >>] :
             f \in RE_NOISE_OS3D_SMOOTH_f32(a[1], a[2], a[3])}

\* What each evaluator returns when it is run from its call to its return.
Alone(op, a) ==
    IF op = "RE_NOISE_VALUE3_f32" THEN RE_NOISE_VALUE3_f32(a[1], a[2], a[3])
    ELSE IF op = "RE_NOISE_PERLIN3_f32" THEN RE_NOISE_PERLIN3_f32(a[1], a[2], a[3])
    ELSE IF op = "RE_NOISE_VALUE3_FBM_f32"
    THEN {h[1] : h \in RE_NOISE_VALUE3_FBM_f32(a[1], a[2], a[3], a[4], a[5], a[6])}
    ELSE {h.ret : h \in RE_NOISE_OS3D_SMOOTH_f32(a[1], a[2], a[3])}

InitPure ==
    /\ mode \in {1, 2}
    /\ RE_NOISE_TABLE_INITED = FALSE
    /\ RE_NOISE_PERM_1024 = InitTable(mode)
    /\ call = NoCall
    /\ mem = NoCall
    /\ log = [t \in Evaluators \cup {Hasher} |-> Idle]

\* Thread t returns r from its call.
Return(t, r) ==
    /\ call' = [op |-> log[t].op, args |-> log[t].args, ret |-> r, reads |-> << >>,
                size |-> 0, built |-> FALSE]
    /\ mem' = IF call.op = log[t].op /\ call.args = log[t].args THEN call ELSE NoCall
    /\ log' = [log EXCEPT ![t] = Idle]
    /\ UNCHANGED globals

\* Thread t calls an evaluator that has a loop and runs it up to the loop.
EvalBegin(t) ==
    \E c \in LoopCalls : \E st \in Started(c[1], c[2]) :
        /\ log[t].pc = "idle"
        /\ log' = [log EXCEPT ![t] = st]
        /\ UNCHANGED << globals, call, mem >>

\* Thread t runs one octave of the loop of RE_NOISE_VALUE3_FBM_f32, and returns
\* when that was the last.
EvalOctave(t) ==
    /\ log[t].pc = "run" /\ log[t].op = "RE_NOISE_VALUE3_FBM_f32"
    /\ \E n \in RE_NOISE_VALUE3_f32(log[t].acc.at[1], log[t].acc.at[2], log[t].acc.at[3]) :
          \E st \in {FractalStep("fbm", log[t].acc, n, log[t].args[5], log[t].args[6], FZero)} :
              IF Continues(log[t].at + 1, log[t].args[4])
              THEN /\ log' = [log EXCEPT ![t].at = @ + 1, ![t].acc = st]
                   /\ UNCHANGED << globals, call, mem >>
              ELSE Return(t, st.sum)

\* Thread t runs one iteration of the corner loop of RE_NOISE_OS3D_SMOOTH_f32, and
\* returns when that was the last.
EvalCorner(t) ==
    /\ log[t].pc = "run" /\ log[t].op = "RE_NOISE_OS3D_SMOOTH_f32"
    /\ \E f \in {log[t].frame} :
          \E st \in {RankedCornerStep(log[t].at, f[2], f[1][1], f[1][2], f[1][3], f[3],
                                      RadiusSmooth, log[t].acc)} :
              IF log[t].at + 1 < Len(LATTICE_CORNER)
              THEN /\ log' = [log EXCEPT ![t].at = @ + 1, ![t].acc = st]
                   /\ UNCHANGED << globals, call, mem >>
              ELSE Return(t, FMul(st.value, I2F(OS3D_SCALE_F32)))

\* Thread t runs an evaluator that has no loop, from its call to its return.
EvalWhole(t) ==
    \E c \in WholeCalls : \E r \in Alone(c[1], c[2]) :
        /\ log[t].pc = "idle"
        /\ call' = [op |-> c[1], args |-> c[2], ret |-> r, reads |-> << >>,
                    size |-> 0, built |-> FALSE]
        /\ mem' = IF call.op = c[1] /\ call.args = c[2] THEN call ELSE NoCall
        /\ UNCHANGED << globals, log >>

\* The hashing thread takes its next step of RE_HASH3D up to the table reads
\* (hash mode 2).
HashInitStep ==
    /\ mode = 2
    /\ log[Hasher].pc \in {"idle", "init", "flag"} \cup Building
    /\ \E st \in {InitStep(log[Hasher].pc, RE_NOISE_TABLE_INITED, RE_NOISE_PERM_1024)} :
          /\ log' = [log EXCEPT ![Hasher].pc = st.pc]
          /\ RE_NOISE_TABLE_INITED' = st.inited
          /\ RE_NOISE_PERM_1024' = st.table
    /\ UNCHANGED << mode, call, mem >>

\* The hashing thread reads its table and returns from RE_HASH3D(10, 20, 30).
HashRead ==
    /\ \/ mode = 2 /\ log[Hasher].pc \in {"read", "read_built"}
       \/ mode = 1 /\ log[Hasher].pc = "idle"
    /\ \E h \in {IF mode = 2 THEN RE_HASH3D_1024(RE_NOISE_PERM_1024, 10, 20, 30)
                 ELSE RE_HASH3D_256(10, 20, 30)} :
          log' = [log EXCEPT ![Hasher] = [Idle EXCEPT !.at = h.ret]]
    /\ UNCHANGED << globals, call, mem >>

NextPure ==
    \/ \E t \in Evaluators : EvalBegin(t)
    \/ \E t \in Evaluators : EvalOctave(t)
    \/ \E t \in Evaluators : EvalCorner(t)
    \/ \E t \in Evaluators : EvalWhole(t)
    \/ HashInitStep
    \/ HashRead

SpecPure == InitPure /\ [][NextPure]_vars

(***************************************************************************)
(* Hex packing: colours are packed and unpacked, and each result can be    *)
(* handed back to the opposite conversion.                                 *)
(***************************************************************************)
\* Channel values: the test's 10, 20, 30, 40 with both ends and the top bit.
Reds == {0, 10, 255}
Greens == {0, 20, 128, 255}
Blues == {0, 30, 255}
Alphas == {0, 40, 128, 255}
\* Limbs of the packed words: the test's 0x280A141E, single bits, full bytes.
HexLimbs == {0, 1, 10250, 5150, 32768, 255, 65280, 65535}

CallColorToHex ==
    \E r \in Reds, g \in Greens, b \in Blues, a \in Alphas :
        LET c == [r |-> r, g |-> g, b |-> b, a |-> a]
        IN  /\ FloatCall("RE_COLOR_TO_HEX", << c >>, RE_COLOR_TO_HEX(c))
            /\ mem' = NoCall

CallColorFromHex ==
    \E hi \in HexLimbs, lo \in HexLimbs :
        /\ FloatCall("RE_COLOR_FROM_HEX", << << hi, lo >> >>, RE_COLOR_FROM_HEX(<< hi, lo >>))
        /\ mem' = NoCall

\* The value the last conversion returned goes through the opposite one.
ConvertBack ==
    /\ mem.op = "none"
    /\ \/ /\ call.op = "RE_COLOR_TO_HEX"
          /\ FloatCall("RE_COLOR_FROM_HEX", << call.ret >>, RE_COLOR_FROM_HEX(call.ret))
       \/ /\ call.op = "RE_COLOR_FROM_HEX"
          /\ FloatCall("RE_COLOR_TO_HEX", << call.ret >>, RE_COLOR_TO_HEX(call.ret))
    /\ mem' = call

NextColor == CallColorToHex \/ CallColorFromHex \/ ConvertBack
SpecColor == InitFloat /\ [][NextColor]_vars

(***************************************************************************)
(* Integer min, max and clamp called on pairs around zero and at the ends  *)
(* of the RE_i32 range.                                                    *)
(***************************************************************************)
\* The test's -5 and 7, zero, its neighbours, and the two limits.
MinMaxInts == {I32Min, -5, -1, 0, 1, 7, I32Max}

CallMinI32 ==
    \E a \in MinMaxInts, b \in MinMaxInts :
        FloatCall("RE_MIN_I32", << a, b >>, RE_MIN_I32(a, b)) /\ UNCHANGED mem

CallMaxI32 ==
    \E a \in MinMaxInts, b \in MinMaxInts :
        FloatCall("RE_MAX_I32", << a, b >>, RE_MAX_I32(a, b)) /\ UNCHANGED mem

CallClampI32 ==
    \E x \in MinMaxInts, lo \in MinMaxInts, hi \in MinMaxInts :
        /\ lo <= hi
        /\ FloatCall("RE_CLAMP_I32", << x, lo, hi >>, RE_CLAMP_I32(x, lo, hi))
        /\ UNCHANGED mem

NextMinMax == CallMinI32 \/ CallMaxI32 \/ CallClampI32
SpecMinMax == InitFloat /\ [][NextMinMax]_vars

(***************************************************************************)
(* Two xorshift32 generators, each seeded and then drawn from.  log holds, *)
(* per generator, the seed given, the state word and the values returned   *)
(* since the seeding.                                                      *)
(***************************************************************************)
Rng32s == {"a", "b"}
\* Seeds: zero, one, the test's 12345, the top bit, all ones.
Rng32Seeds == { << 0, 0 >>, << 0, 1 >>, << 0, 12345 >>, << 32768, 0 >>, << 65535, 65535 >> }
\* Draws followed after one seeding.
MaxDraws == 3

InitRng32 ==
    /\ mode = 1
    /\ RE_NOISE_TABLE_INITED = FALSE
    /\ RE_NOISE_PERM_1024 = InitTable(mode)
    /\ call = NoCall
    /\ mem = NoCall
    /\ log = [g \in Rng32s |-> [seeded |-> FALSE, seed |-> << 0, 0 >>, state |-> << 0, 0 >>,
                                out |-> << >>]]

Rng32Seed(g) ==
    \E seed \in Rng32Seeds :
        /\ log' = [log EXCEPT ![g] = [seeded |-> TRUE, seed |-> seed,
                                      state |-> RE_RNG32_SEED(seed), out |-> << >>]]
        /\ call' = [op |-> "RE_RNG32_SEED", args |-> << g, seed >>, ret |-> << 0, 0 >>,
                    reads |-> << >>, size |-> 0, built |-> FALSE]
        /\ UNCHANGED << globals, mem >>

Rng32Next(g) ==
    /\ log[g].seeded
    /\ Len(log[g].out) < MaxDraws
    /\ LET x == RE_RNG32_NEXT_u32(log[g].state)
       IN  /\ log' = [log EXCEPT ![g].state = x, ![g].out = Append(@, x)]
           /\ call' = [op |-> "RE_RNG32_NEXT_u32", args |-> << g >>, ret |-> x,
                       reads |-> << >>, size |-> 0, built |-> FALSE]
    /\ UNCHANGED << globals, mem >>

NextRng32 == \E g \in Rng32s : Rng32Seed(g) \/ Rng32Next(g)
SpecRng32 == InitRng32 /\ [][NextRng32]_vars

(***************************************************************************)
(* Two PCG32 generators, each seeded and then drawn from.  log holds, per  *)
(* generator, the (seed, seq) given, the RE_RANDOM_STATE before and after  *)
(* the last call, and the values RE_RANDOM_U32 returned since the seeding. *)
(***************************************************************************)
Randoms == {"A", "B"}
\* (seed, seq): the test's (1234, 5678), zeros, and words with all limbs in use.
RandomSeeds ==
    { << << 0, 0, 0, 1234 >>, << 0, 0, 0, 5678 >> >>,
      << << 0, 0, 0, 0 >>, << 0, 0, 0, 0 >> >>,
      << << 65535, 65535, 65535, 65535 >>, << 32768, 0, 0, 0 >> >>,
      << << 291, 17767, 35243, 52719 >>, << 65244, 47768, 30292, 12816 >> >> }

Unseeded == [state |-> << 0, 0, 0, 0 >>, inc |-> << 0, 0, 0, 0 >>]

InitRandom ==
    /\ mode = 1
    /\ RE_NOISE_TABLE_INITED = FALSE
    /\ RE_NOISE_PERM_1024 = InitTable(mode)
    /\ call = NoCall
    /\ mem = NoCall
    /\ log = [g \in Randoms |-> [seeded |-> FALSE, key |-> << >>, old |-> Unseeded,
                                 rng |-> Unseeded, out |-> << >>]]

RandomSeed(g) ==
    \E k \in RandomSeeds :
        /\ log' = [log EXCEPT ![g] = [seeded |-> TRUE, key |-> k, old |-> Unseeded,
                                      rng |-> RE_RANDOM_SEED(k[1], k[2]), out |-> << >>]]
        /\ call' = [op |-> "RE_RANDOM_SEED", args |-> << g, k[1], k[2] >>, ret |-> << 0, 0 >>,
                    reads |-> << >>, size |-> 0, built |-> FALSE]
        /\ UNCHANGED << globals, mem >>

RandomU32(g) ==
    /\ log[g].seeded
    /\ Len(log[g].out) < MaxDraws
    /\ LET d == RE_RANDOM_U32(log[g].rng)
       IN  /\ log' = [log EXCEPT ![g].old = log[g].rng, ![g].rng = d.rng,
                                 ![g].out = Append(@, d.ret)]
           /\ call' = [op |-> "RE_RANDOM_U32", args |-> << g >>, ret |-> d.ret,
                       reads |-> << >>, size |-> 0, built |-> FALSE]
    /\ UNCHANGED << globals, mem >>

NextRandom == \E g \in Randoms : RandomSeed(g) \/ RandomU32(g)
SpecRandom == InitRandom /\ [][NextRandom]_vars

(***************************************************************************)
(* One PCG32 generator drawn from through RE_RANDOM_RANGE_U32.  log holds  *)
(* the RE_RANDOM_STATE before and after the last call, the number of calls *)
(* since the seeding, and whether the last call trapped in its division.   *)
(***************************************************************************)
U32Max == << 65535, 65535 >>
\* [min, max]: the test's [10, 20], single values, and ranges ending at 2^32 - 1.
Ranges ==
    { << << 0, 10 >>, << 0, 20 >> >>, << << 0, 0 >>, << 0, 0 >> >>, << << 0, 7 >>, << 0, 7 >> >>,
      << << 0, 0 >>, << 0, 1 >> >>, << << 0, 5 >>, U32Max >>, << << 0, 0 >>, << 65535, 65534 >> >>,
      << U32Max, U32Max >>, << << 0, 0 >>, U32Max >> }

InitRange ==
    /\ mode = 1
    /\ RE_NOISE_TABLE_INITED = FALSE
    /\ RE_NOISE_PERM_1024 = InitTable(mode)
    /\ call = NoCall
    /\ mem = NoCall
    /\ log = [seeded |-> FALSE, old |-> Unseeded, rng |-> Unseeded, calls |-> 0,
              trapped |-> FALSE]

RangeSeed ==
    \E k \in RandomSeeds :
        /\ log' = [seeded |-> TRUE, old |-> Unseeded, rng |-> RE_RANDOM_SEED(k[1], k[2]),
                   calls |-> 0, trapped |-> FALSE]
        /\ call' = [op |-> "RE_RANDOM_SEED", args |-> << k[1], k[2] >>, ret |-> << 0, 0 >>,
                    reads |-> << >>, size |-> 0, built |-> FALSE]
        /\ UNCHANGED << globals, mem >>

\* A trap ends the program: nothing is called after it but a fresh start.
CallRandomRangeU32 ==
    /\ log.seeded /\ ~log.trapped
    /\ log.calls < MaxDraws
    /\ \E m \in Ranges : \E o \in RE_RANDOM_RANGE_U32(log.rng, m[1], m[2]) :
           /\ log' = [log EXCEPT !.old = log.rng, !.rng = o.rng, !.calls = @ + 1,
                                 !.trapped = o.trapped]
           /\ call' = [op |-> "RE_RANDOM_RANGE_U32", args |-> m, ret |-> o.ret,
                       reads |-> << >>, size |-> 0, built |-> FALSE]
    /\ UNCHANGED << globals, mem >>

NextRange == RangeSeed \/ CallRandomRangeU32
SpecRange == InitRange /\ [][NextRange]_vars

(***************************************************************************)
(* The rank-ordered OpenSimplex 3D evaluators called on points on both     *)
(* sides of x + y + z = 2 and x + y + z = -2: halves around zero, points   *)
(* far from the origin, and points whose large coordinates cancel.         *)
(***************************************************************************)
SumSpan == 6

Os3dCancelling ==
    { << Flt(0, 8390081, 4), Flt(1, 8390082, 4), I2F(14) >>,
      << Flt(0, 8392399, 3), Flt(1, 8392394, 3), Flt(1, 11136892, -18) >> }
SumPoints ==
    {<< FOfRatio(n, 1), yz[1], yz[2] >> : n \in (-SumSpan)..SumSpan, yz \in Os3dYZ}
        \cup Os3dFar \cup Os3dCancelling

NextOs3dSum ==
    \/ \E p \in SumPoints : CallOs3dSmooth(p)
    \/ \E p \in SumPoints : CallOs3dFast(p)

SpecOs3dSum == InitFloat /\ [][NextOs3dSum]_vars

(***************************************************************************)
(* RE_OS3D_GET_CORNERS_FAST_f32 called on quarters around zero: points     *)
(* with every order of the three fractions, ties of two and of three.      *)
(***************************************************************************)
CornerSpan == 3
CornerPoints ==
    {<< FOfRatio(a, 2), FOfRatio(b, 2), FOfRatio(c, 2) >> :
        a \in (-CornerSpan)..CornerSpan, b \in (-CornerSpan)..CornerSpan,
        c \in (-CornerSpan)..CornerSpan}

CallGetCornersFast(p) ==
    \E c \in RE_OS3D_GET_CORNERS_FAST_f32(p[1], p[2], p[3]) :
        /\ FloatCall("RE_OS3D_GET_CORNERS_FAST_f32", p, c)
        /\ UNCHANGED mem

NextCorners == \E p \in CornerPoints : CallGetCornersFast(p)
SpecCorners == InitFloat /\ [][NextCorners]_vars

(***************************************************************************)
(* Calls of the two 4x4 inverses, each on a fresh out matrix; mem is the   *)
(* call before.                                                            *)
(***************************************************************************)
\* The identity, the test's matrix, a scale, the zero matrix and the all-ones matrix.
Matrices ==
    { RE_M4F32_IDENTITY,
      M4Of(<< 4, 7, 2, 3, 0, 5, 0, 1, 0, 0, 3, 0, 0, 0, 0, 1 >>),
      M4Of(<< 2, 0, 0, 0, 0, 4, 0, 0, 0, 0, 8, 0, 0, 0, 0, 1 >>),
      M4Of([k \in 1..16 |-> 0]),
      M4Of([k \in 1..16 |-> 1]) }

Mat4Call(name, m, r) ==
    /\ call' = [op |-> name, args |-> << m >>, ret |-> r, reads |-> << >>, size |-> 0,
                built |-> FALSE]
    /\ mem' = call
    /\ UNCHANGED << globals, log >>

CallM4F32Inverse == \E m \in Matrices : Mat4Call("RE_M4F32_INVERSE", m, RE_M4F32_INVERSE(m))

CallM4F64Inverse ==
    \E m \in Matrices : \E r \in RE_M4F64_INVERSE(m) : Mat4Call("RE_M4F64_INVERSE", m, r)

NextMat4 == CallM4F32Inverse \/ CallM4F64Inverse
SpecMat4 == InitFloat /\ [][NextMat4]_vars

(***************************************************************************)
(* Hash core: properties                                                   *)
(***************************************************************************)
\* The cascade of the specification over the fixed 256-entry permutation, in
\* plain integer arithmetic: PERM[(PERM[(PERM[x mod 256] + y) mod 256] + z) mod 256].
Perm(i) == RE_NOISE_PERM[i + 1]
Cascade(x, y, z) == Perm((Perm((Perm(x % 256) + (y % 256)) % 256) + (z % 256)) % 256)

TableHashOps == {"RE_HASH3D", "RE_NOISE_HASH3"}

\* C1: in hash mode 1 RE_HASH3D, and in every mode RE_NOISE_HASH3, return the
\* cascade PERM[(PERM[(PERM[x&255]+y)&255]+z)&255] for every x, y, z, so two calls
\* of the two functions with the same coordinates return the same value.
C1_TableHashIsCascade ==
    /\ (call.op = "RE_HASH3D" /\ mode = 1) =>
            call.ret = Cascade(call.args[1], call.args[2], call.args[3])
    /\ call.op = "RE_NOISE_HASH3" =>
            call.ret = Cascade(call.args[1], call.args[2], call.args[3])
    /\ (mode = 1 /\ mem.op \in TableHashOps /\ call.op \in TableHashOps
            /\ mem.args = call.args) => mem.ret = call.ret

\* Both functions were called with the same coordinates, one of them negative and
\* one INT32_MIN.
C1_Witness ==
    /\ mode = 1 /\ mem.op = "RE_NOISE_HASH3" /\ call.op = "RE_HASH3D"
    /\ mem.args = call.args /\ call.args = << -246, -236, I32Min >>

(***************************************************************************)
(* Reference arithmetic on 32-bit words written as four bytes, low byte    *)
(* first: bitwise xor and shift, schoolbook multiplication modulo 2^32.    *)
(***************************************************************************)
BytesOfInt(x) == << x % 256, (x \div 256) % 256, (x \div 65536) % 256, (x \div 16777216) % 256 >>
BytesOfWord(w) == << w[2] % 256, w[2] \div 256, w[1] % 256, w[1] \div 256 >>
BitOf(b, i) == IF i \in 0..31 THEN (b[(i \div 8) + 1] \div (2 ^ (i % 8))) % 2 ELSE 0
ByteFrom(F(_), o) ==
    F(o) + 2 * F(o + 1) + 4 * F(o + 2) + 8 * F(o + 3)
         + 16 * F(o + 4) + 32 * F(o + 5) + 64 * F(o + 6) + 128 * F(o + 7)
BytesFromBits(F(_)) == << ByteFrom(F, 0), ByteFrom(F, 8), ByteFrom(F, 16), ByteFrom(F, 24) >>
RefXor(a, b) == LET F(i) == (BitOf(a, i) + BitOf(b, i)) % 2 IN BytesFromBits(F)
RefShr(a, k) == LET F(i) == BitOf(a, i + k) IN BytesFromBits(F)
RefMul(a, b) ==
    LET d1 == a[1] * b[1]
        d2 == a[1] * b[2] + a[2] * b[1] + (d1 \div 256)
        d3 == a[1] * b[3] + a[2] * b[2] + a[3] * b[1] + (d2 \div 256)
        d4 == a[1] * b[4] + a[2] * b[3] + a[3] * b[2] + a[4] * b[1] + (d3 \div 256)
    IN  << d1 % 256, d2 % 256, d3 % 256, d4 % 256 >>
\* The three rounds x^=x>>16; x*=0x7feb352d; x^=x>>15; x*=0x846ca68b; x^=x>>16.
RefC1 == << 45, 53, 235, 127 >>
RefC2 == << 139, 166, 108, 132 >>
RefMix(x) ==
    LET x1 == RefXor(x, RefShr(x, 16))
        x2 == RefMul(x1, RefC1)
        x3 == RefXor(x2, RefShr(x2, 15))
        x4 == RefMul(x3, RefC2)
    IN  RefXor(x4, RefShr(x4, 16))
RefHash(a, m1, m2, m3) ==
    RefMix(RefXor(RefXor(RefMul(BytesOfInt(a[1]), BytesOfWord(m1)),
                         RefMul(BytesOfInt(a[2]), BytesOfWord(m2))),
                  RefMul(BytesOfInt(a[3]), BytesOfWord(m3))))
OddDistinct(m1, m2, m3) ==
    /\ m1[2] % 2 = 1 /\ m2[2] % 2 = 1 /\ m3[2] % 2 = 1
    /\ Cardinality({m1, m2, m3}) = 3

\* C5: RE_HASH3D_PCG and RE_OS3D_HASH return MIX(x*m1 XOR y*m2 XOR z*m3) modulo
\* 2^32 with three distinct odd multipliers and MIX the three rounds
\* x^=x>>16; x*=0x7feb352d; x^=x>>15; x*=0x846ca68b; x^=x>>16; RE_PCG_MIX32 and
\* RE_PCG_MIX32_u32 are that MIX and agree; the same call returns the same value
\* whatever the global state, and no such call changes the global state.
C5_Values ==
    /\ OddDistinct(PcgM1, PcgM2, PcgM3) /\ OddDistinct(Os3dM1, Os3dM2, Os3dM3)
    /\ call.op = "RE_HASH3D_PCG" =>
          BytesOfWord(call.ret) = RefHash(call.args, PcgM1, PcgM2, PcgM3)
    /\ call.op = "RE_OS3D_HASH" =>
          BytesOfWord(call.ret) = RefHash(call.args, Os3dM1, Os3dM2, Os3dM3)
    /\ call.op \in {"RE_PCG_MIX32", "RE_PCG_MIX32_u32"} =>
          /\ BytesOfWord(call.ret) = RefMix(BytesOfWord(call.args[1]))
          /\ call.ret = RE_PCG_MIX32(call.args[1])
          /\ call.ret = RE_PCG_MIX32_u32(call.args[1])
    /\ (call.op \in PcgOps /\ mem.op = call.op /\ mem.args = call.args) =>
          mem.ret = call.ret
C5_TablelessHash ==
    /\ []C5_Values
    /\ [][call'.op \in PcgOps => UNCHANGED globals]_vars

\* RE_HASH3D_PCG(-1, INT32_MIN, INT32_MAX) = 0x8b7ddd10 returned after the table
\* of hash mode 2 was built, the same call having been made before.
C5_Witness ==
    /\ call.op = "RE_HASH3D_PCG" /\ call.args = << -1, I32Min, I32Max >>
    /\ call.ret = << 35709, 56592 >>
    /\ mem.op = call.op /\ mem.args = call.args
    /\ mode = 2 /\ RE_NOISE_TABLE_INITED

\* C4: in hash mode 1, at fixed y and z, RE_HASH3D returns different values for
\* x of different residues modulo 256, and over 256 consecutive x returns every
\* value 0..255; RE_HASH3D(10,20,30) and RE_HASH3D(11,20,30) differ.
C4_BijectionInX ==
    (mode = 1 /\ call.op = "RE_HASH3D") =>
        /\ \A p \in log : (p[1] % 256 /= call.args[1] % 256) => p[2] /= call.ret
        /\ Cardinality(log) >= 256 => {p[2] : p \in log} = 0..255
        /\ (call.args = << 11, 20, 30 >>) => \A p \in log : p[1] = 10 => p[2] /= call.ret

\* A sweep from x = 10 at (y, z) = (20, 30) has covered all 256 residues.
C4_Witness ==
    /\ mode = 1 /\ call.op = "RE_HASH3D"
    /\ Cardinality(log) = 256 /\ call.args = << 265, 20, 30 >>
    /\ << 10, 59 >> \in log /\ << 11, 129 >> \in log

\* The hash functions that index a permutation table, and the size of the table
\* each one indexes: 256 entries, or 1024 for RE_HASH3D in hash mode 2.
IndexingOps == {"RE_HASH3D", "RE_NOISE_HASH", "RE_NOISE_HASH2", "RE_NOISE_HASH3",
                "RE_NOISE_HASH4"}
TableEntries(op) ==
    IF op = "RE_HASH3D" /\ mode = 2 THEN RE_NOISE_TABLE_SIZE ELSE Len(RE_NOISE_PERM)

\* What the function of a call returns for other coordinates, in the current state.
HashAt(op, a) ==
    CASE op = "RE_HASH3D" ->
            RE_HASH3D(mode, RE_NOISE_TABLE_INITED, RE_NOISE_PERM_1024, a[1], a[2], a[3]).ret
      [] op = "RE_NOISE_HASH"  -> RE_NOISE_HASH(a[1]).ret
      [] op = "RE_NOISE_HASH2" -> RE_NOISE_HASH2(a[1], a[2]).ret
      [] op = "RE_NOISE_HASH3" -> RE_NOISE_HASH3(a[1], a[2], a[3]).ret
      [] op = "RE_NOISE_HASH4" -> RE_NOISE_HASH4(a[1], a[2], a[3], a[4]).ret

Reduced(a, n) == [k \in DOMAIN a |-> a[k] % n]

IndicesInTable ==
    \A k \in 1..Len(call.reads) : call.reads[k] \in 0..(TableEntries(call.op) - 1)

\* C2 as stated: every index used lies inside the table, and the result equals the
\* result for the coordinates reduced modulo 256 (in hash mode 2 as well).
C2_ReducedMod256 ==
    call.op \in IndexingOps =>
        /\ IndicesInTable
        /\ call.ret = HashAt(call.op, Reduced(call.args, 256))

\* C2 (amended): every index used lies inside the table (0..255; 0..1023 for
\* RE_HASH3D in hash mode 2), negative and extreme coordinates included, and the
\* result equals the result for the coordinates reduced modulo the number of
\* table entries: 256, and 1024 for RE_HASH3D in hash mode 2.
C2_NegativeCoordinatesIndex ==
    call.op \in IndexingOps =>
        /\ IndicesInTable
        /\ call.ret = HashAt(call.op, Reduced(call.args, TableEntries(call.op)))

\* RE_HASH3D in hash mode 2 was called with negative coordinates that are not
\* their own residues.
C2_Witness ==
    /\ mode = 2 /\ call.op = "RE_HASH3D" /\ call.args = << -246, -236, I32Min >>
    /\ call.reads = << 778, 788, 0, call.reads[4] >>

\* C6: RE_HASH3D_to_f32 returns a value in [0, 1] in hash mode 1 and in hash mode 2.
C6_HashFloatInUnitRange ==
    call.op = "RE_HASH3D_to_f32" => (FLe(I2F(0), call.ret) /\ FLe(call.ret, I2F(1)))

\* C3: two RE_HASH3D calls with the same coordinates return the same value,
\* whatever was called before or between them, the call that built the table of
\* hash mode 2 included.
C3_HashDeterministic ==
    (mem.op = "RE_HASH3D" /\ call.op = "RE_HASH3D" /\ mem.args = call.args)
        => mem.ret = call.ret

\* In hash mode 2 the earlier call built the table; the later one found it built.
C3_Witness ==
    /\ mode = 2 /\ mem.op = "RE_HASH3D" /\ call.op = "RE_HASH3D"
    /\ mem.args = call.args /\ mem.built /\ ~call.built


(***************************************************************************)
(* Floor, fade and value noise                                             *)
(***************************************************************************)
\* The mathematical floor of a float x with -2^31 <= x < 2^31, as an integer.
MathFloorI32(x) ==
    IF x.m = 0 THEN 0
    ELSE IF x.e = 8 THEN I32Min
    ELSE LET sm == IF x.s = 1 THEN -x.m ELSE x.m
         IN  IF x.e >= 0 THEN sm * Pow2(x.e)
             ELSE IF x.e < -30 THEN (IF x.s = 1 THEN -1 ELSE 0)
             ELSE sm \div Pow2(-x.e)

\* r <= x < r + 1 for an RE_i32 r.  For x in the range of RE_i32 that is
\* r = floor(x); for x outside it no RE_i32 satisfies it.
FloorContract32(r, x) == InI32Range(x) /\ r = MathFloorI32(x)

\* r <= x < r + 1 for an RE_i64 r = base + off: off <= x - base < off + 1.
FloorContract64(r, x) ==
    LET d == FSub(x, r.base)
    IN  FLe(I2F(r.off), d) /\ FLt(d, I2F(r.off + 1))

\* C7 as stated: for all finite x, fastfloor(x) <= x < fastfloor(x) + 1, values
\* beyond the range of the returned integer type included.
C7_TrueFloorAllFinite ==
    /\ call.op = "RE_FASTFLOOR_f32" => FloorContract32(call.ret, call.args[1])
    /\ call.op = "RE_FASTFLOOR_f64" => FloorContract64(call.ret, call.args[1])

\* C7: for every finite x inside the range of the returned integer type,
\* fastfloor(x) <= x < fastfloor(x) + 1; -0.5 gives -1 and -3 gives -3.
C7_TrueFloorInRange ==
    /\ (call.op = "RE_FASTFLOOR_f32" /\ InI32Range(call.args[1])) =>
          /\ FloorContract32(call.ret, call.args[1])
          /\ call.args[1] = FOfRatio(-1, 1) => call.ret = -1
          /\ call.args[1] = I2F(-3) => call.ret = -3
    /\ (call.op = "RE_FASTFLOOR_f64" /\ InI64Range(call.args[1])) =>
          /\ FloorContract64(call.ret, call.args[1])
          /\ call.args[1] = FOfRatio(-1, 1) => call.ret = [base |-> I2F(0), off |-> -1]
          /\ call.args[1] = I2F(-3) => call.ret = [base |-> I2F(-3), off |-> 0]

\* RE_FASTFLOOR_f32(-0.5) has returned -1.
C7_Witness ==
    call.op = "RE_FASTFLOOR_f32" /\ call.args = << FOfRatio(-1, 1) >> /\ call.ret = -1

\* C8: fade(0) = 0, fade(1) = 1, fade(0.5) = 0.5, fade maps [0,1] into [0,1] and
\* is non-decreasing on [0,1].
C8_FadeCurve ==
    call.op = "RE_NOISE_FADE_f32" =>
        LET t == call.args[1]
            r == call.ret
        IN  /\ FEq(t, I2F(0)) => FEq(r, I2F(0))
            /\ FEq(t, I2F(1)) => FEq(r, I2F(1))
            /\ FEq(t, FOfRatio(1, 1)) => FEq(r, FOfRatio(1, 1))
            /\ FLe(I2F(0), r) /\ FLe(r, I2F(1))
            /\ (mem.op = "RE_NOISE_FADE_f32" /\ FLe(mem.args[1], t)) => FLe(mem.ret, r)

ValueOps == {"RE_NOISE_VALUE2_f32", "RE_NOISE_VALUE3_f32", "RE_NOISE_VALUE4_f32"}

\* C9: the value noise returns a value in [-1, 1].
C9_ValueNoiseBounded ==
    call.op \in ValueOps => (FLe(I2F(-1), call.ret) /\ FLe(call.ret, I2F(1)))

\* floor(c * 2^k) of a float c, |c| * 2^k < 2^31.
FixOf(c, k) ==
    IF c.m = 0 THEN 0
    ELSE LET sh == c.e + k
             sm == IF c.s = 1 THEN -c.m ELSE c.m
         IN  IF sh >= 0 THEN sm * Pow2(sh)
             ELSE IF sh < -30 THEN (IF c.s = 1 THEN -1 ELSE 0)
             ELSE sm \div Pow2(-sh)

\* x is a multiple of one half.
HalfIntegral(x) ==
    x.m = 0 \/ x.e >= -1 \/ (x.e > -FLT_MANT_DIG - 1 /\ x.m % Pow2(-x.e - 1) = 0)

HashOfCorner(p) ==
    IF Len(p) = 2 THEN RE_NOISE_HASH2(p[1], p[2]).ret
    ELSE IF Len(p) = 3 THEN RE_NOISE_HASH3(p[1], p[2], p[3]).ret
    ELSE RE_NOISE_HASH4(p[1], p[2], p[3], p[4]).ret

RECURSIVE SumOver(_, _)
SumOver(S, f) ==
    IF S = {} THEN 0 ELSE LET d == CHOOSE d \in S : TRUE IN f[d] + SumOver(S \ {d}, f)

RECURSIVE ProdUpTo(_, _)
ProdUpTo(f, i) == IF i = 0 THEN 1 ELSE f[i] * ProdUpTo(f, i - 1)

\* The multilinear interpolation of the corner scalars at a point a whose
\* coordinates are multiples of one half, in units of 2^-(24 + n): the weights
\* fade(frac) are 0 or 1/2 and are counted in halves, the corner scalars in
\* units of 2^-24.
Multilinear(a) ==
    LET n       == Len(a)
        O       == [i \in 1..n |-> MathFloorI32(a[i])]
        w       == [i \in 1..n |-> FixOf(RE_NOISE_FADE_f32(FSub(a[i], I2F(O[i]))), 1)]
        Corners == [1..n -> {0, 1}]
        term    == [d \in Corners |->
                      ProdUpTo([i \in 1..n |-> IF d[i] = 1 THEN w[i] ELSE 2 - w[i]], n)
                      * FixOf(RE_NOISE_VALUE_FROM_HASH_f32(
                                  HashOfCorner([i \in 1..n |-> O[i] + d[i]])), 24)]
    IN  SumOver(Corners, term)

\* C10: in 2D, 3D and 4D the value noise is the multilinear interpolation of the
\* corner scalars, each axis weighted by the fade of its own fraction (compared
\* here at points on the half lattice, to within 16 units of 2^-24).
C10_Multilinear ==
    (call.op \in ValueOps /\ \A i \in 1..Len(call.args) : HalfIntegral(call.args[i])) =>
        LET n    == Len(call.args)
            diff == FixOf(call.ret, 24 + n) - Multilinear(call.args)
        IN  diff <= 16 * Pow2(n) /\ -diff <= 16 * Pow2(n)

(***************************************************************************)
(* Classic Perlin 3D: properties                                           *)
(***************************************************************************)
\* At a point a of the half lattice: the trilinear blend, in units of 1/16, of
\* the 8 corner dot products, the gradient of corner (dx,dy,dz) selected by the
\* table hash of its own lattice coordinates (X+dx, Y+dy, Z+dz).  Offsets and
\* fade weights (0 or 1/2) are counted in halves.
PerlinOwnCorners(a) ==
    LET O       == [i \in 1..3 |-> MathFloorI32(a[i])]
        fh      == [i \in 1..3 |-> FixOf(FSub(a[i], I2F(O[i])), 1)]
        wh      == [i \in 1..3 |-> FixOf(RE_NOISE_FADE_f32(FSub(a[i], I2F(O[i]))), 1)]
        Corners == [1..3 -> {0, 1}]
        term    == [d \in Corners |->
                      LET h == Cascade((O[1] % 256) + d[1], (O[2] % 256) + d[2],
                                       (O[3] % 256) + d[3])
                          g == RE_NOISE_GRAD3[(h % 12) + 1]
                      IN  ProdUpTo([i \in 1..3 |-> IF d[i] = 1 THEN wh[i] ELSE 2 - wh[i]], 3)
                          * (g[1] * (fh[1] - 2 * d[1]) + g[2] * (fh[2] - 2 * d[2])
                             + g[3] * (fh[3] - 2 * d[3]))]
    IN  SumOver(Corners, term)

\* C11: Perlin 3D blends trilinearly the 8 corner dot products, each corner's
\* gradient being RE_NOISE_GRAD3[h % 12] for h the table hash of that corner's
\* own lattice coordinates (checked exactly at the points of the half lattice).
C11_PerlinOwnCorners ==
    (call.op = "RE_NOISE_PERLIN3_f32" /\ \A i \in 1..3 : HalfIntegral(call.args[i])) =>
        FEq(call.ret, FOfRatio(PerlinOwnCorners(call.args), 4))

\* C12: a step of 0.01f along x, at fixed y and z, changes RE_NOISE_PERLIN3_f32 by
\* less than 0.2f, also when the step crosses an integer cell boundary.
C12_PerlinSmoothX ==
    (call.op = "RE_NOISE_PERLIN3_f32" /\ mem.op = "RE_NOISE_PERLIN3_f32") =>
        FLt(RE_FABS_f32(FSub(mem.ret, call.ret)), Flt(0, 13421773, -26))

\* A step from below 256 to above it has been taken, and the value changed.
C12_Witness ==
    /\ call.op = "RE_NOISE_PERLIN3_f32" /\ mem.op = "RE_NOISE_PERLIN3_f32"
    /\ FLt(mem.args[1], I2F(256)) /\ FLe(I2F(256), call.args[1])
    /\ ~FEq(mem.ret, call.ret)

(***************************************************************************)
(* OpenSimplex 3D: properties                                              *)
(***************************************************************************)
\* The largest of the three local offsets.
MaxOf3(o) ==
    IF FLe(o[2], o[1]) /\ FLe(o[3], o[1]) THEN o[1]
    ELSE IF FLe(o[3], o[2]) THEN o[2] ELSE o[3]

\* The axes along which corners 1, 2 and 3 of the call are offset.
OffsetAxes == {i \in 1..3 : log.corners[i + 1].delta[i] = 1}

\* C13: in the rank-ordered variants, for every (x0, y0, z0), ties included, every rank
\* is in 0..2, exactly one of the corners 1, 2, 3 is offset, and it is offset along an
\* axis whose component of (x0, y0, z0) is maximal.
C13_RankSelectsOneCorner ==
    call.op \in RankedOps =>
        /\ \A i \in 1..3 : log.ranks[i] \in 0..2
        /\ Cardinality(OffsetAxes) = 1
        /\ \A i \in OffsetAxes : FEq(log.offs[i], MaxOf3(log.offs))

\* Corner i of the call was rejected: its attenuation is not positive.
Rejected(i) == ~CornerPasses(log.corners[i + 1].atten)

\* The evaluations of kind ev made for corner i come after its attenuation.
AfterAttn(ev, i) ==
    \A k \in 1..Len(log.order) :
        log.order[k] = << ev, i >> => \E q \in 1..(k - 1) : log.order[q] = << "attn", i >>

\* C14: in every OpenSimplex variant the attenuation of a corner is computed first; a
\* rejected corner adds exactly 0 and has neither its hash nor its gradient evaluated; hash
\* and gradient are evaluated only after the attenuation was found positive.
C14_EarlyRejection ==
    call.op \in Os3dOps =>
        \A i \in 0..(Len(log.corners) - 1) :
            /\ AfterAttn("hash", i) /\ AfterAttn("grad", i)
            /\ Rejected(i) =>
                /\ log.corners[i + 1].contrib = FZero
                /\ \A k \in 1..Len(log.order) : log.order[k] \notin {<< "hash", i >>, << "grad", i >>}

\* The local offsets of a unit cell, whatever the cell: within two units of its origin.
OffsetBound == 2

\* C15: in the Smooth 3D variant the unskewed origin (X0, Y0, Z0) of the cell (i, j, k)
\* skews back to exactly (i, j, k), and the local offsets (x0, y0, z0) stay within a
\* range that does not grow with the magnitude of the input.
C15_UnskewInvertsSkew ==
    call.op = "RE_NOISE_OS3D_SMOOTH_f32" =>
        /\ \A i \in 1..3 :
              FEq(Skew(log.origin[1], log.origin[2], log.origin[3])[i], I2F(log.cell[i]))
        /\ \A i \in 1..3 : FLe(RE_FABS_f32(log.offs[i]), I2F(OffsetBound))

(***************************************************************************)
(* Fractal variants: properties                                            *)
(***************************************************************************)
\* a^i in floats.
RECURSIVE FPow(_, _)
FPow(a, i) == IF i = 0 THEN I2F(1) ELSE FMul(FPow(a, i - 1), a)

\* The point of octave i: (x lac^i, y lac^i, z lac^i).
OctavePoint(a, i) ==
    << FMul(a[1], FPow(a[5], i)), FMul(a[2], FPow(a[5], i)), FMul(a[3], FPow(a[5], i)) >>

\* The sums of the first k terms noise(octave point i) * gain^i.
RECURSIVE SeriesSums(_, _)
SeriesSums(a, k) ==
    IF k <= 0 THEN {FZero}
    ELSE {FAdd(s, FMul(n, FPow(a[6], k - 1))) :
             s \in SeriesSums(a, k - 1),
             n \in RE_NOISE_VALUE3_f32(OctavePoint(a, k - 1)[1], OctavePoint(a, k - 1)[2],
                                       OctavePoint(a, k - 1)[3])}

\* C16: RE_NOISE_VALUE3_FBM_f32 runs max(octaves, 0) iterations, samples octave i at
\* (x, y, z) lac^i before scaling, returns the sum of noise * gain^i over the octaves,
\* 0 for octaves <= 0, the base noise for octaves = 1, and a non-zero value for
\* (1, 2, 3, 4, 2, 0.5).
C16_FbmSeries ==
    call.op = "RE_NOISE_VALUE3_FBM_f32" =>
        /\ Len(log) = (IF call.args[4] > 0 THEN call.args[4] ELSE 0)
        /\ \A i \in 1..Len(log) : log[i] = OctavePoint(call.args, i - 1)
        /\ \E s \in SeriesSums(call.args, call.args[4]) : FEq(call.ret, s)
        /\ call.args[4] <= 0 => FEq(call.ret, FZero)
        /\ call.args[4] = 1 =>
              \E n \in RE_NOISE_VALUE3_f32(call.args[1], call.args[2], call.args[3]) :
                  FEq(call.ret, n)
        /\ call.args = << I2F(1), I2F(2), I2F(3), 4, I2F(2), FOfRatio(1, 1) >> =>
              ~FEq(call.ret, FZero)

C16_Witness ==
    /\ call.op = "RE_NOISE_VALUE3_FBM_f32"
    /\ call.args = << I2F(1), I2F(2), I2F(3), 4, I2F(2), FOfRatio(1, 1) >>
    /\ Len(log) = 4
    /\ log[4] = << I2F(8), I2F(16), I2F(24) >>
    /\ FLt(call.ret, FZero)

\* C17: RE_NOISE_VALUE3_TURBULENCE_f32 and RE_NOISE_VALUE3_RIDGED_f32 never return a
\* negative value, whatever the point, the octave count, the lacunarity and the gain,
\* negative gains included.
C17_NeverNegative ==
    call.op \in {"RE_NOISE_VALUE3_TURBULENCE_f32", "RE_NOISE_VALUE3_RIDGED_f32"} =>
        FLe(FZero, call.ret)

(***************************************************************************)
(* Hash mode 2: properties                                                 *)
(***************************************************************************)
\* The Fisher-Yates index of every iteration i satisfies 0 <= j <= i.
ShuffleInRange == \A i \in 1..(RE_NOISE_TABLE_SIZE - 1) : ShuffleIndex(i) \in 0..i

\* Entries 0..SIZE-1 of t are a permutation of 0..SIZE-1 and entries SIZE..2 SIZE-1
\* repeat them.
PermutationTwice(t) ==
    /\ Len(t) = 2 * RE_NOISE_TABLE_SIZE
    /\ {t[i] : i \in 1..RE_NOISE_TABLE_SIZE} = 0..(RE_NOISE_TABLE_SIZE - 1)
    /\ \A i \in 1..RE_NOISE_TABLE_SIZE : t[i + RE_NOISE_TABLE_SIZE] = t[i]

\* Once a call has returned the table is the one built from the fixed seed,
\* whichever call built it; before, it is untouched.
BuiltOnFirstCall ==
    IF call.op = "none"
    THEN ~RE_NOISE_TABLE_INITED /\ RE_NOISE_PERM_1024 = ZeroTable
    ELSE /\ RE_NOISE_TABLE_INITED
         /\ RE_NOISE_PERM_1024 = BuiltFromZero
         /\ PermutationTwice(RE_NOISE_PERM_1024)
         /\ ShuffleInRange

\* A call builds the table exactly when it finds it not built; a call that finds it
\* built leaves the table and the flag as they are.
BuiltOnce ==
    /\ call'.built = ~RE_NOISE_TABLE_INITED
    /\ RE_NOISE_TABLE_INITED =>
          UNCHANGED << RE_NOISE_TABLE_INITED, RE_NOISE_PERM_1024 >>

\* C20: in hash mode 2 with one thread the table is built exactly once, by the first
\* call; once built its entries 0..1023 are a permutation of 0..1023 (every shuffle
\* index j satisfies 0 <= j <= i), entries 1024..2047 repeat them, the contents are
\* those the fixed seed gives, and every later RE_HASH3D or RE_NOISE_INIT_1024 call
\* leaves the table and the flag unchanged.
C20_TableBuiltOnce == [](mode = 2 => BuiltOnFirstCall) /\ [][mode = 2 => BuiltOnce]_vars

\* A RE_HASH3D call built the table, and a later RE_HASH3D call and then a later
\* RE_NOISE_INIT_1024 call found it built.
C20_Witness ==
    /\ mode = 2 /\ mem.op = "RE_HASH3D" /\ mem.built
    /\ call.op = "RE_NOISE_INIT_1024" /\ ~call.built
    /\ RE_NOISE_PERM_1024 = BuiltFromZero

\* What RE_HASH3D returns for the coordinates a on the completed table.
Completed(a) == RE_HASH3D_1024(BuiltFromZero, a[1], a[2], a[3]).ret

\* C19: in hash mode 2 the guard of the lazy initialisation is a plain flag that is
\* set before the table is filled: whenever a thread is filling, shuffling or
\* duplicating, the flag is already TRUE and lets every other call through to the
\* table reads; only a call that ran with no other call started is sure to leave the
\* completed table and to return its value.
C19_FlagSetBeforeTableBuilt ==
    mode = 2 =>
        /\ \A t \in Threads : log[t] \in Building => RE_NOISE_TABLE_INITED
        /\ \A t \in Threads :
              (log[t] = "done" /\ \A u \in Threads \ {t} : log[u] = "idle") =>
                  /\ RE_NOISE_PERM_1024 = BuiltFromZero
                  /\ call.built /\ call.ret = Completed(call.args)

\* Threads A and B are both inside the shuffle loop, and the call of thread C, which
\* found the flag set and skipped the initialisation, has returned a value that is
\* not the one the completed table gives for its coordinates.
C19_Witness ==
    /\ mode = 2
    /\ log["A"] = "shuffle_lo" /\ log["B"] = "shuffle_lo" /\ log["C"] = "done"
    /\ call.op = "RE_HASH3D" /\ call.args = RaceArgs["C"] /\ ~call.built
    /\ call.ret /= Completed(call.args)

\* C18: the evaluators are pure and reentrant in both hash modes.  Whatever other
\* evaluator calls and whatever steps of RE_HASH3D (the lazy initialisation of the
\* table included) ran between its iterations, an evaluator call returns the one
\* value the function returns when run alone on its arguments; a call repeated with
\* the same arguments returns the identical value; and no step of an evaluator
\* changes the hash mode's globals.
C18_EvaluatorsPure ==
    /\ [](/\ call.op \in PureOps => Alone(call.op, call.args) = {call.ret}
          /\ mem.op \in PureOps => mem.ret = call.ret)
    /\ [][log'[Hasher] = log[Hasher] => UNCHANGED globals]_vars

\* A call of RE_NOISE_OS3D_SMOOTH_f32 has returned for the second time running while
\* the table of hash mode 2 is half built and the other thread is inside a loop.
C18_Witness ==
    /\ mode = 2
    /\ log[Hasher].pc \in Building
    /\ call.op = "RE_NOISE_OS3D_SMOOTH_f32" /\ mem.op = call.op
    /\ call.ret /= FZero
    /\ \E t \in Evaluators : log[t].pc = "run" /\ log[t].at > 0

\* A point in general position: no coordinate is an integer and no two coordinates
\* are equal.
Generic(p) ==
    /\ \A i \in 1..3 : \A xi \in RE_FASTFLOOR_f32(p[i]) : ~FEq(p[i], I2F(xi))
    /\ ~FEq(p[1], p[2]) /\ ~FEq(p[1], p[3]) /\ ~FEq(p[2], p[3])

\* C21: at a point in general position RE_NOISE_OS3D_SMOOTH_f32 does not return the
\* value RE_NOISE_OPENSIMPLEX3D_FAST_f32 returned at the same point.
C21_FastSmoothDistinct ==
    (/\ call.op = "RE_NOISE_OS3D_SMOOTH_f32"
     /\ mem.op = "RE_NOISE_OPENSIMPLEX3D_FAST_f32"
     /\ mem.args = call.args
     /\ Generic(call.args)) => ~FEq(mem.ret, call.ret)

\* C22: a colour packed by RE_COLOR_TO_HEX and unpacked by RE_COLOR_FROM_HEX is the same colour, a word unpacked and packed again is the same word, and the packed word holds alpha in bits 24..31, red in 16..23, green in 8..15 and blue in 0..7.
C22_HexRoundTrip ==
    /\ (call.op = "RE_COLOR_FROM_HEX" /\ mem.op = "RE_COLOR_TO_HEX") =>
           call.ret = mem.args[1]
    /\ (call.op = "RE_COLOR_TO_HEX" /\ mem.op = "RE_COLOR_FROM_HEX") =>
           call.ret = mem.args[1]
    /\ call.op = "RE_COLOR_TO_HEX" =>
           LET c == call.args[1]
           IN  call.ret = << c.a * K8 + c.r, c.g * K8 + c.b >>
    /\ call.op = "RE_COLOR_FROM_HEX" =>
           LET h == call.args[1]
           IN  call.ret = [r |-> h[1] % K8, g |-> h[2] \div K8, b |-> h[2] % K8,
                           a |-> h[1] \div K8]

C22_Witness ==
    /\ mem.op = "RE_COLOR_TO_HEX"
    /\ mem.args = << [r |-> 10, g |-> 20, b |-> 30, a |-> 40] >>
    /\ mem.ret = << 10250, 5150 >>
    /\ call.op = "RE_COLOR_FROM_HEX"
    /\ call.ret = mem.args[1]

\* C23: RE_MIN_I32 returns the smaller and RE_MAX_I32 the larger of its two arguments for every pair of RE_i32 values, and RE_CLAMP_I32(x, lo, hi) with lo <= hi returns a value in [lo, hi] that is x when x is in [lo, hi].
C23_MinMaxExact ==
    /\ call.op = "RE_MIN_I32" =>
           call.ret = (IF call.args[1] <= call.args[2] THEN call.args[1] ELSE call.args[2])
    /\ call.op = "RE_MAX_I32" =>
           call.ret = (IF call.args[1] >= call.args[2] THEN call.args[1] ELSE call.args[2])
    /\ call.op = "RE_CLAMP_I32" =>
           LET x == call.args[1]  lo == call.args[2]  hi == call.args[3]
           IN  /\ lo <= call.ret /\ call.ret <= hi
               /\ (lo <= x /\ x <= hi) => call.ret = x

\* Where no difference overflows the three helpers are exact (the test's pair among them).
C23_ExactWithoutOverflow ==
    (/\ call.op \in {"RE_MIN_I32", "RE_MAX_I32", "RE_CLAMP_I32"}
     /\ \A i \in 1..Len(call.args) : call.args[i] \in -5..7) => C23_MinMaxExact

\* C30: a seeded xorshift32 generator never has the state zero and never returned zero, whatever the seed (zero included), and of two generators given the same seed the values one returned are the first values the other returned.
C30_Rng32NeverZero ==
    /\ \A g \in Rng32s : log[g].seeded =>
           /\ log[g].state /= << 0, 0 >>
           /\ \A i \in 1..Len(log[g].out) : log[g].out[i] /= << 0, 0 >>
    /\ call.op = "RE_RNG32_NEXT_u32" => call.ret /= << 0, 0 >>
    /\ \A g \in Rng32s : \A h \in Rng32s :
           (log[g].seeded /\ log[h].seeded /\ log[g].seed = log[h].seed) =>
               \A i \in 1..Len(log[g].out) : i <= Len(log[h].out) => log[g].out[i] = log[h].out[i]

C30_Witness ==
    /\ \A g \in Rng32s : log[g].seeded /\ log[g].seed = << 0, 0 >> /\ Len(log[g].out) = MaxDraws
    /\ log["a"].out = log["b"].out
    /\ log["a"].out[1] = << 4, 8225 >>
    /\ call.op = "RE_RNG32_NEXT_u32"

\* C25: two PCG32 generators seeded with the same (seed, seq) return the same values; a RE_RANDOM_U32 call leaves inc as it was and makes state the old state times 6364136223846793005 plus (inc | 1) modulo 2^64, returning a value that depends on the old state alone; and inc is odd in every seeded generator.
C25_Pcg32Deterministic ==
    /\ \A g \in Randoms : \A h \in Randoms :
           (log[g].seeded /\ log[h].seeded /\ log[g].key = log[h].key) =>
               /\ \A i \in 1..Len(log[g].out) :
                      i <= Len(log[h].out) => log[g].out[i] = log[h].out[i]
               /\ Len(log[g].out) = Len(log[h].out) => log[g].rng = log[h].rng
    /\ \A g \in Randoms : log[g].seeded => log[g].rng.inc[4] % 2 = 1
    /\ \A g \in Randoms : (log[g].seeded /\ log[g].out /= << >>) =>
           /\ log[g].rng.inc = log[g].old.inc
           /\ log[g].rng.state =
                  AddU64(MulU64(log[g].old.state, PCG_MULT), OrOneU64(log[g].old.inc))
           /\ log[g].out[Len(log[g].out)] =
                  RE_RANDOM_U32([log[g].old EXCEPT !.inc = << 0, 0, 0, 0 >>]).ret

C25_Witness ==
    /\ \A g \in Randoms :
           /\ log[g].seeded
           /\ log[g].key = << << 0, 0, 0, 1234 >>, << 0, 0, 0, 5678 >> >>
           /\ Len(log[g].out) >= 3
           /\ SubSeq(log[g].out, 1, 3) = << << 37004, 38765 >>, << 23442, 21251 >>, << 33733, 26082 >> >>
           /\ log[g].rng.inc = << 0, 0, 0, 11357 >>
    /\ log["A"].rng = log["B"].rng
    /\ call.op = "RE_RANDOM_U32"

\* C24: RE_RANDOM_RANGE_U32(rng, min, max) with min <= max returns a value in [min, max], the range 0..2^32-1 included, and leaves the generator one RE_RANDOM_U32 step further.
C24_RangeInBounds ==
    call.op = "RE_RANDOM_RANGE_U32" =>
        /\ ~log.trapped
        /\ LeU32(call.args[1], call.ret) /\ LeU32(call.ret, call.args[2])
        /\ log.rng = RE_RANDOM_U32(log.old).rng

\* On every range but the full one the call returns a value in range, one step further.
C24_InBoundsBelowFullRange ==
    (call.op = "RE_RANDOM_RANGE_U32" /\ call.args /= << << 0, 0 >>, U32Max >>) => C24_RangeInBounds

\* |x + y + z| >= 2, the sum taken as the evaluators take it.
SumAtLeastTwo(p) ==
    LET sum == FAdd(FAdd(p[1], p[2]), p[3])
    IN  FLe(I2F(2), sum) \/ FLe(sum, I2F(-2))

\* Every coordinate is at most 2^17 in magnitude.
Moderate(p) == \A i \in 1..3 : FLe(I2F(-131072), p[i]) /\ FLe(p[i], I2F(131072))

\* C29 (as stated): RE_NOISE_OS3D_SMOOTH_f32 and RE_NOISE_OS3D_FAST_f32 return exactly 0 whenever |x + y + z| >= 2.
C29_ZeroBeyondTwo ==
    (call.op \in RankedOps /\ SumAtLeastTwo(call.args)) => FEq(call.ret, FZero)

\* C29 (amended): RE_NOISE_OS3D_SMOOTH_f32 and RE_NOISE_OS3D_FAST_f32 return exactly 0, every corner rejected, whenever |x + y + z| >= 2 and no coordinate exceeds 2^17 in magnitude.
C29_ZeroBeyondTwoModerate ==
    (call.op \in RankedOps /\ SumAtLeastTwo(call.args) /\ Moderate(call.args)) =>
        /\ FEq(call.ret, FZero)
        /\ \A i \in 1..Len(log.corners) : ~FLt(FZero, log.corners[i].atten)

C29_Witness ==
    /\ call.op = "RE_NOISE_OS3D_FAST_f32"
    /\ call.args = << FOfRatio(-4, 1), FZero, FZero >>
    /\ SumAtLeastTwo(call.args) /\ Moderate(call.args)
    /\ Len(log.corners) = 4
    /\ FEq(call.ret, FZero)

\* The values at a point whose coordinates cancel to x + y + z = -2.
C29_Cancelling ==
    /\ call.args = << Flt(0, 8390081, 4), Flt(1, 8390082, 4), I2F(14) >>
    /\ SumAtLeastTwo(call.args)
    /\ \/ call.op = "RE_NOISE_OS3D_FAST_f32" /\ call.ret = Flt(0, 16372323, -29)
       \/ call.op = "RE_NOISE_OS3D_SMOOTH_f32" /\ call.ret = Flt(0, 11440321, -37)

\* The first axis whose fraction is not below any other.
FirstMaximal(f) == CHOOSE a \in 1..3 : /\ \A b \in 1..3 : FLe(f[b], f[a])
                                       /\ \A b \in 1..(a - 1) : ~(\A d \in 1..3 : FLe(f[d], f[b]))

\* C27: of the four corners RE_OS3D_GET_CORNERS_FAST_f32 writes, corner 0 is the floor of the point, corner 1 is one step along the first axis of maximal fraction, corners 2 and 3 are the origin plus (1,1,0) and (0,1,1), each delta is the fraction minus the corner's lattice offset, and each hash is RE_OS3D_HASH of the corner's own coordinates.
C27_CornersConsistent ==
    call.op = "RE_OS3D_GET_CORNERS_FAST_f32" =>
        LET c      == call.ret
            org    == << c[1].i, c[1].j, c[1].k >>
            f      == << c[1].dx, c[1].dy, c[1].dz >>
            Lattice(n) == << c[n].i - org[1], c[n].j - org[2], c[n].k - org[3] >>
            Unit(a) == [b \in 1..3 |-> IF b = a THEN 1 ELSE 0]
        IN  /\ Len(c) = 4
            /\ \A a \in 1..3 :
                   /\ FLe(I2F(org[a]), call.args[a]) /\ FLt(call.args[a], I2F(org[a] + 1))
                   /\ f[a] = FSub(call.args[a], I2F(org[a]))
            /\ Lattice(2) = Unit(FirstMaximal(f))
            /\ Lattice(3) = << 1, 1, 0 >>
            /\ Lattice(4) = << 0, 1, 1 >>
            /\ \A n \in 1..4 :
                   /\ << c[n].dx, c[n].dy, c[n].dz >> = [a \in 1..3 |-> FSub(f[a], I2F(Lattice(n)[a]))]
                   /\ c[n].hash = RE_OS3D_HASH(c[n].i, c[n].j, c[n].k)

C27_Witness ==
    /\ call.op = "RE_OS3D_GET_CORNERS_FAST_f32"
    /\ call.args = << FOfRatio(-1, 2), FOfRatio(3, 2), FOfRatio(3, 2) >>
    /\ << call.ret[1].i, call.ret[1].j, call.ret[1].k >> = << -1, 0, 0 >>
    /\ << call.ret[2].i, call.ret[2].j, call.ret[2].k >> = << 0, 0, 0 >>
    /\ call.ret[2].dx = FOfRatio(-1, 2)
    /\ call.ret[4].hash = RE_OS3D_HASH(-1, 1, 1)

\* The value RE_NOISE_PERLIN3_f32 tends to as p is approached from inside the cell below
\* it along axis a: the cell's own interpolant, taken at the face (fraction 1 on axis a).
PerlinFromBelow(p, a) ==
    {Perlin3At(p[1], p[2], p[3], c[1], c[2], c[3], c[1], c[2], c[3]) :
        c \in {[b \in 1..3 |-> IF b = a THEN f[b] - 1 ELSE f[b]] :
                  f \in RE_FASTFLOOR_f32(p[1]) \X RE_FASTFLOOR_f32(p[2]) \X RE_FASTFLOOR_f32(p[3])}}

\* The coordinate a of p is an integer: p lies on a cell face across axis a.
OnFace(p, a) == \A i \in RE_FASTFLOOR_f32(p[a]) : FEq(p[a], I2F(i))

\* C26: at a point on a cell face, across whichever axis, RE_NOISE_PERLIN3_f32 (computed in the cell above the face) returns the value it tends to from inside the cell below the face.
C26_PerlinContinuousFaces ==
    call.op = "RE_NOISE_PERLIN3_f32" =>
        \A a \in 1..3 : OnFace(call.args, a) =>
            \A below \in PerlinFromBelow(call.args, a) : FEq(below, call.ret)

\* Across the faces x = integer the two values agree.
C26_ContinuousAcrossX ==
    (call.op = "RE_NOISE_PERLIN3_f32" /\ OnFace(call.args, 1)) =>
        \A below \in PerlinFromBelow(call.args, 1) : FEq(below, call.ret)

\* C28: RE_M4F64_INVERSE returns what RE_M4F32_INVERSE returns for the same matrix (0 with out unwritten when the determinant is 0, else 1 with the cofactors over the determinant), the same for every call with that matrix.
C28_F64InverseAsF32 ==
    call.op = "RE_M4F64_INVERSE" =>
        /\ call.ret = RE_M4F32_INVERSE(call.args[1])
        /\ (mem.op = "RE_M4F64_INVERSE" /\ mem.args = call.args) => mem.ret = call.ret

\* |a - b| <= 1e-4f for every element, as the test compares matrices.
Mat4Near(A, B) ==
    \A k \in 1..16 : FLe(RE_FABS_f32(FSub(A[k], B[k])), Flt(0, 13743895, -37))

\* RE_M4F32_INVERSE does return 0 exactly for the singular matrices, and otherwise a right inverse.
C28_F32InverseRight ==
    call.op = "RE_M4F32_INVERSE" =>
        IF call.args[1] \in {M4Of([k \in 1..16 |-> 0]), M4Of([k \in 1..16 |-> 1])}
        THEN call.ret = << 0, Unwritten >>
        ELSE /\ call.ret[1] = 1
             /\ Mat4Near(RE_M4F32_MULTIPLY(call.args[1], call.ret[2]), RE_M4F32_IDENTITY)

====
